---- MODULE Spec2Model ----
(***************************************************************************)
(* Incremental loaders of the warehouse (src/dags): the checkpointed,      *)
(* transactional single-batch driver (OrdersLoader.run over the joined,    *)
(* gap-aware reader list_orders), the checkpoint store with its            *)
(* serialisation (EtlSettingsRepository, json2str/to_dict), the scoped     *)
(* destination connection (PgConnect.connection), the type-2 writers       *)
(* (insert_restaurant, insert_product), the restaurants and products       *)
(* pipelines of one scheduled run, and the plain batch readers.            *)
(*                                                                         *)
(* Time is counted in ticks: TicksPerSec ticks make one second, so a       *)
(* datetime with a sub-second part is a tick count that is not a multiple  *)
(* of TicksPerSec.  A formatted "%Y-%m-%d %H:%M:%S" string is identified   *)
(* with the number of whole seconds it spells.                             *)
(***************************************************************************)
EXTENDS Integers, Sequences, FiniteSets, TLC

\* ------------------------------------------------------------------ bounds
NOrders == 3          \* orders present in stg.ordersystem_orders
MaxTick == 3          \* update_ts ranges over 1..MaxTick ticks
TicksPerSec == 2      \* sub-second resolution of a datetime
BatchLimit == 2       \* stands for OrdersLoader.BATCH_LIMIT (5000)
GapBatch == 5         \* size of the batch read over a reference gap
MaxWrites == 3        \* versioned writes applied to one natural key
NRestaurants == 2     \* restaurants of the order system
MenuSize == 2         \* products on the menu of a restaurant
NRecords == 3         \* records of the source a plain reader reads from
MaxLimit == 2         \* a plain reader is called with a limit in 1..MaxLimit
PagedRecords == 7     \* records a paginated endpoint serves
PagedLimit == 6       \* a paginated reader is called with a limit in 0..PagedLimit
MaxPageSize == 3      \* and reads pages of 1..MaxPageSize records
DrainDays == 2        \* settlement dates of the aggregates
EndpointIds == 3      \* the ids a record of a delivery-system endpoint can have
NScripts == 4         \* script files in a ddl directory
DrainLimit == 2       \* stands for the BATCH_LIMIT (100) of the drain-loop loaders

\* --------------------------------------------------------- program values
DatetimeMin == 0      \* datetime.min, the default of last_loaded_ts
ObjectIdZero == 0     \* str(ObjectId('0' * 24)), the default of last_loaded_oid
Null == 0             \* SQL NULL / Python None of an Optional[int] foreign key
OrdersWfKey == "orders_stg_to_dds_workflow"   \* OrdersLoader.WF_KEY

Orders == 1..NOrders
Ticks == 1..MaxTick

Min(a, b) == IF a < b THEN a ELSE b

VARIABLES
    stg_orders,        \* stg.ordersystem_orders: object_id -> staged row
    dm_users,          \* dds.dm_users: the user_id values present
    dm_restaurants,    \* dds.dm_restaurants: the restaurant_id values present
    dm_timestamps,     \* dds.dm_timestamps: the ts values present
    dm_orders,         \* dds.dm_orders, committed: order_key -> row
    srv_wf_settings,   \* dds.srv_wf_settings, committed: workflow_key -> settings json
    tx_dm_orders,      \* dds.dm_orders as seen inside the target transaction
    tx_wf_settings,    \* dds.srv_wf_settings as seen inside the target transaction
    pc,                \* position of OrdersLoader.run
    order_settings,    \* the OrderSettings loaded by the invocation
    fetched,           \* rows returned by the SELECT of list_orders
    load_queue,        \* what list_orders returned (after the gap scan)
    idx,               \* next element of load_queue to insert
    did_read,          \* the invocation has run its read
    batch_limit,       \* OrdersLoader.BATCH_LIMIT of this deployment
    result,            \* how the last finished invocation ended
    start_dm_orders,   \* dds.dm_orders when the last invocation opened
    start_wf_settings, \* dds.srv_wf_settings when the last invocation opened
    env_same,          \* no dimension changed since the last invocation ended
    committed_batch,   \* load_queue of the last invocation that saved and committed
    committed_keys,    \* object ids of all batches whose invocation committed
    dm_restaurants_rows, \* dds.dm_restaurants: the set of its rows
    dm_products_rows,  \* dds.dm_products: the set of its rows
    restaurant_log,    \* the insert_restaurant calls made so far, in order
    product_log,       \* the insert_product calls made so far, in order
    os_restaurants,    \* stg.ordersystem_restaurants: object_id -> staged row
    ds_restaurants,    \* stg.deliverysystem_restaurants: the object_id values present
    dag_phase,         \* which task group of the scheduled run is due
    now,               \* the source clock, in ticks
    rd_kind,           \* which reader is called: "events", "orders" or "products"
    rd_source,         \* the outbox table / the orders collection: id -> timestamp
    rd_settings,       \* the settings the reader is called with
    rd_limit,          \* the limit the reader is called with
    rd_batch,          \* what the reader returned
    rd_done,           \* the reader has been called
    rd_page_size,      \* the page size of a paginated reader
    rd_dest,           \* the ids of the rows a loader run has written
    st_key,            \* the wf_key of the last save_setting call, "none" before it
    st_settings,       \* the settings it was handed
    st_before,         \* the rows of srv_wf_settings before it
    fct_product_sales, \* dds.fct_product_sales: (product_id, order_id) -> row
    cc_kind,           \* slot -> the pipeline the slot's invocation runs
    cc_pc,             \* slot -> where its invocation stands
    cc_settings,       \* slot -> the settings it loaded
    cc_queue,          \* slot -> its load_queue
    cc_written,        \* slot -> the keys of the rows its open transaction wrote
    cc_tx_setting,     \* slot -> the settings its open transaction saved
    cc_dest,           \* pipeline -> the keys of the rows committed to its table
    ou_users,          \* stg.ordersystem_users: object_id -> row
    bu_users,          \* stg.bonussystem_users: the order_user_id values
    cc_couriers,       \* stg.deliverysystem_couriers: id -> object_id
    cc_max_active,     \* how many invocations the scheduler lets run at once
    cc_before,         \* the rows of srv_wf_settings before the last commit
    cc_last,           \* the slot that committed last, 0 before any commit
    cn_orders,         \* stg.ordersystem_orders as the timestamps loader reads it
    cn_pc,             \* the statement that runs next
    cn_in,             \* whose code runs: run's, or a connection's generator
    cn_conn,           \* connection -> none, open or closed
    cn_calls,          \* connection -> the calls made on it, in order
    cn_left,           \* connection -> how its with-block was left
    cn_exc,            \* an exception propagates
    cn_outcome,        \* how run ended: returned or raised
    cn_settings,       \* the settings the run loaded
    cn_queue,          \* its load_queue
    cn_idx,            \* the position of its insert loop
    cn_early,          \* it took the early return
    cn_ts,             \* dds.dm_timestamps, committed: the ts values
    cn_wf,             \* dds.srv_wf_settings, committed
    cn_tx_ts,          \* dds.dm_timestamps inside the target transaction
    cn_tx_wf,          \* dds.srv_wf_settings inside the target transaction
    cn_start,          \* what was committed when the run started
    dr_kind,           \* the drain-loop loader: settlement or ledger
    dr_source,         \* the aggregate rows its query groups out of the dds layer
    dr_pc,             \* the statement that runs next
    dr_settings,       \* the settings the invocation loaded
    dr_offset,         \* offset
    dr_queue,          \* load_queue
    dr_last,           \* the key of last_loaded_report, or none
    dr_log,            \* the reads, writes and saves of the invocation, in order
    dr_written,        \* the rows the invocation upserted
    dr_table,          \* the cdm table, committed
    dr_tx_table,       \* the cdm table inside the target transaction
    dr_tx_wf,          \* cdm.srv_wf_settings inside the target transaction
    sb_kind,           \* the single-batch loader that is run
    sb_source,         \* its source: id -> timestamp of the record
    sb_limit,          \* its BATCH_LIMIT
    sb_own_dim,        \* the records whose own dimension row is present
    sb_shared_dim,     \* the dimension row the records share, when present
    sb_pc,             \* the statement that runs next
    sb_settings,       \* the settings the invocation loaded
    sb_fetched,        \* the rows its query returned
    sb_queue,          \* load_queue
    sb_idx,            \* the position of the insert loop
    sb_log,            \* the reads, writes and saves of the invocation, in order
    sb_table,          \* the target table, committed: the ids written
    sb_tx_table,       \* the target table inside the transaction
    sb_tx_wf,          \* srv_wf_settings inside the transaction
    pl_pc,             \* the paging loop: where the call of the reader is
    pl_offset,         \* offset
    pl_records,        \* the records accumulated
    pl_requests,       \* the requests sent, in order
    pl_result,         \* what the reader returned
    cf_kind,           \* the writers: the table written to
    cf_rows,           \* the rows of the table
    cf_first,          \* per business key, the field values first written
    cf_last,           \* per business key, the field values last written
    cf_raised,         \* whether an INSERT raised
    dag_state,         \* the scheduled run: the state of every task
    dag_fails,         \* the tasks whose callable raises in this run
    ddl_mtime,         \* SchemaDdl.init: the modification time of each script
    ddl_fails,         \* the scripts the database rejects
    ddl_prev,          \* prev_execution_date, Null when there is none
    ddl_listing,       \* path.iterdir(): the scripts in directory order
    ddl_paths,         \* file_paths
    ddl_i,             \* the position of the loop over file_paths
    ddl_pc,            \* where the call of init is
    ddl_tx,            \* the script executed inside the open transaction
    ddl_committed,     \* the scripts committed, in order
    ddl_executed,      \* the scripts handed to cur.execute, in order
    of_kind,           \* the offset-checkpointed loader: couriers or restaurants
    of_limit,          \* its BATCH_LIMIT
    of_source,         \* the ids the endpoint of the delivery system has
    of_staged,         \* the object ids in the staging table
    of_wf,             \* stg.srv_wf_settings
    of_last,           \* the last run: the offset it loaded, the records it wrote
    ps_lines,          \* the product lines of the staged bonus events
    ps_limit,          \* BATCH_LIMIT of the sales loader
    ps_wf,             \* dds.srv_wf_settings
    ps_facts,          \* dds.fct_product_sales: (product_id, order_id) -> row
    ps_written,        \* the rows handed to insert_sale so far
    ps_queue           \* the load_queue of the last run

\* The variables of the orders pipeline.
ordersVars == <<stg_orders, dm_users, dm_restaurants, dm_timestamps, dm_orders,
                srv_wf_settings, tx_dm_orders, tx_wf_settings, pc, order_settings,
                fetched, load_queue, idx, did_read, batch_limit, result,
                start_dm_orders, start_wf_settings, env_same, committed_batch,
                committed_keys>>

\* The variables of the type-2 dimension tables.
scdVars == <<dm_restaurants_rows, dm_products_rows, restaurant_log, product_log>>

\* The variables of the staged restaurants and of the scheduled run.
stagingVars == <<os_restaurants, ds_restaurants, dag_phase, now>>

\* The variables of a single call of a reader.
readerVars == <<rd_kind, rd_source, rd_settings, rd_limit, rd_batch, rd_done,
                rd_page_size, rd_dest>>

\* The arguments and the pre-state of a call of save_setting on its own.
storeVars == <<st_key, st_settings, st_before>>

\* The variables no pipeline of the scheduled run touches.
\* Two invocation slots sharing one dds.srv_wf_settings.
concVars == <<cc_kind, cc_pc, cc_settings, cc_queue, cc_written, cc_tx_setting,
              cc_dest, ou_users, bu_users, cc_couriers, cc_max_active, cc_before,
              cc_last>>

\* One run of the timestamps loader and its two scoped connections.
connVars == <<cn_orders, cn_pc, cn_in, cn_conn, cn_calls, cn_left, cn_exc,
              cn_outcome, cn_settings, cn_queue, cn_idx, cn_early, cn_ts, cn_wf,
              cn_tx_ts, cn_tx_wf, cn_start>>

\* One drain-loop loader, its source and its target.
drainVars == <<dr_kind, dr_source, dr_pc, dr_settings, dr_offset, dr_queue, dr_last,
               dr_log, dr_written, dr_table, dr_tx_table, dr_tx_wf>>

\* One single-batch loader, its source, its dimensions and its target.
batchVars == <<sb_kind, sb_source, sb_limit, sb_own_dim, sb_shared_dim, sb_pc,
               sb_settings, sb_fetched, sb_queue, sb_idx, sb_log, sb_table,
               sb_tx_table, sb_tx_wf>>

\* One call of a paginated reader, request by request.
pagingVars == <<pl_pc, pl_offset, pl_records, pl_requests, pl_result>>

\* Repeated runs of an offset-checkpointed loader on a growing endpoint.
offsetVars == <<of_kind, of_limit, of_source, of_staged, of_wf, of_last>>

\* Repeated runs of the sales loader on rows that can share a key.
tiesVars == <<ps_lines, ps_limit, ps_wf, ps_facts, ps_written, ps_queue>>

\* The variables of the stg_3 readers, of the scheduled graph and of the
\* schema scripts.
\* ON CONFLICT writes to one table.
cfVars == <<cf_kind, cf_rows, cf_first, cf_last, cf_raised>>

\* One scheduled run of the graph of tasks.
dagVars == <<dag_state, dag_fails>>

\* One call of SchemaDdl.init.
ddlVars == <<ddl_mtime, ddl_fails, ddl_prev, ddl_listing, ddl_paths, ddl_i, ddl_pc,
             ddl_tx, ddl_committed, ddl_executed>>

opsVars == <<cfVars, dagVars, ddlVars>>

extVars == <<pagingVars, offsetVars, tiesVars, opsVars>>

auxVars == <<storeVars, fct_product_sales, concVars, connVars, drainVars, batchVars,
             extVars>>

vars == <<ordersVars, scdVars, stagingVars, readerVars, auxVars>>

\* What a step of the orders pipeline leaves alone.
notOrders == <<scdVars, stagingVars, readerVars, auxVars>>

\* The variables of the orders pipeline but the table of the watermark rows.
ordersButSettings ==
    <<stg_orders, dm_users, dm_restaurants, dm_timestamps, dm_orders,
      tx_dm_orders, tx_wf_settings, pc, order_settings, fetched, load_queue, idx,
      did_read, batch_limit, result, start_dm_orders, start_wf_settings, env_same,
      committed_batch, committed_keys>>

dimVars == <<dm_users, dm_restaurants, dm_timestamps>>
envVars == <<stg_orders, dm_users, dm_restaurants, dm_timestamps, batch_limit>>
dbVars == <<dm_orders, srv_wf_settings>>
txVars == <<tx_dm_orders, tx_wf_settings>>
runVars == <<order_settings, fetched, load_queue, idx, did_read>>
startVars == <<start_dm_orders, start_wf_settings>>
endVars == <<result, env_same>>
commitVars == <<committed_batch, committed_keys>>

\* ------------------------------------------------- serialisation (utils.py)
\* to_dict on a datetime: strftime("%Y-%m-%d %H:%M:%S") keeps whole seconds.
Strftime(ts) == ts \div TicksPerSec

\* pydantic's datetime field parsing the stored string.
ParseDatetime(s) == s * TicksPerSec

\* The fields of the settings models that hold a datetime.
DatetimeFields == {"last_loaded_ts"}

\* json2str(settings): to_dict(obj.dict()), every datetime value formatted,
\* every other value kept.
json2str(settings) ==
    [f \in DOMAIN settings |->
        IF f \in DatetimeFields THEN Strftime(settings[f]) ELSE settings[f]]

\* OrderSettings(): the field defaults.
DefaultOrderSettings ==
    [last_loaded_ts |-> DatetimeMin, last_loaded_oid |-> ObjectIdZero]

\* ------------------------------------- checkpoint store (EtlSettingsRepository)
\* EtlSetting.workflow_settings of a key that has no row: the empty dict.
EmptySettings == <<>>

\* get_setting: the stored row's workflow_settings, or those of
\* EtlSetting(id=0, workflow_key=wf_key) when no row matches.
get_setting(table, wf_key) ==
    IF wf_key \in DOMAIN table THEN table[wf_key] ELSE EmptySettings

\* Settings(**workflow_settings) of a pydantic settings model: a missing
\* field takes its default, a stored datetime string is parsed back.
ParseSettings(json, defaults) ==
    [f \in DOMAIN defaults |->
        IF f \in DOMAIN json
        THEN IF f \in DatetimeFields THEN ParseDatetime(json[f]) ELSE json[f]
        ELSE defaults[f]]

\* OrderSettings(**wf_setting.workflow_settings)
ParseOrderSettings(json) == ParseSettings(json, DefaultOrderSettings)

\* An upsert that merges the new fields into the stored value.
save_setting_merging(table, wf_key, settings) ==
    [k \in DOMAIN table \cup {wf_key} |->
        IF k = wf_key
        THEN [f \in DOMAIN json2str(settings)
                    \cup (IF k \in DOMAIN table THEN DOMAIN table[k] ELSE {}) |->
                 IF f \in DOMAIN settings THEN json2str(settings)[f] ELSE table[k][f]]
        ELSE table[k]]

\* save_setting: INSERT ... ON CONFLICT (workflow_key) DO UPDATE SET
\* workflow_settings = EXCLUDED.workflow_settings, the value being
\* json2str(wf_settings).
save_setting(table, wf_key, settings) ==
    [k \in DOMAIN table \cup {wf_key} |->
        IF k = wf_key THEN json2str(settings) ELSE table[k]]

\* ------------------------------------------------ record order (OrderObj)
\* Python's < on two tuples of the same length.
TupleLt(a, b) ==
    \E i \in 1..Len(a) :
        /\ a[i] < b[i]
        /\ \A j \in 1..(i - 1) : a[j] = b[j]

\* OrderObj.__lt__: (update_ts, object_id) < (update_ts, object_id).
OrderLt(a, b) ==
    TupleLt(<<a.update_ts, a.object_id>>, <<b.update_ts, b.object_id>>)

\* max(load_queue): the first element no later element is greater than.
RECURSIVE MaxFrom(_, _, _)
MaxFrom(queue, i, best) ==
    IF i > Len(queue) THEN best
    ELSE MaxFrom(queue, i + 1, IF OrderLt(best, queue[i]) THEN queue[i] ELSE best)

max(queue) == MaxFrom(queue, 2, queue[1])

\* OrderSettings(**last_loaded_order.dict()): populated through the aliases.
SettingsOf(order) ==
    [last_loaded_ts |-> order.update_ts, last_loaded_oid |-> order.object_id]

\* ------------------------------------------ joined reader (list_orders)
\* LEFT JOIN of one dimension and MAX(id): the surrogate key of the matching
\* row, NULL when the dimension has no row for the natural key.  A dimension
\* row's surrogate key is identified with its natural key.
LeftJoinFk(dimension, key) == IF key \in dimension THEN key ELSE Null

\* One row of the SELECT ... GROUP BY oo.update_ts, oo.object_id, final_status.
JoinedOrder(oid) ==
    [object_id     |-> oid,
     update_ts     |-> stg_orders[oid].update_ts,
     final_status  |-> stg_orders[oid].final_status,
     user_fk       |-> LeftJoinFk(dm_users, stg_orders[oid].user),
     restaurant_fk |-> LeftJoinFk(dm_restaurants, stg_orders[oid].restaurant),
     timestamp_fk  |-> LeftJoinFk(dm_timestamps, stg_orders[oid].date)]

\* WHERE oo.update_ts > ts_threshold OR
\*       (oo.update_ts = ts_threshold AND oo.object_id > oid_threshold)
OrdersWhere(row, settings) ==
    \/ row.update_ts > settings.last_loaded_ts
    \/ /\ row.update_ts = settings.last_loaded_ts
       /\ row.object_id > settings.last_loaded_oid

\* ORDER BY oo.update_ts, oo.object_id
OrdersSortsBefore(a, b) ==
    \/ a.update_ts < b.update_ts
    \/ a.update_ts = b.update_ts /\ a.object_id <= b.object_id

RECURSIVE OrdersOrderBy(_)
OrdersOrderBy(rows) ==
    IF rows = {} THEN <<>>
    ELSE LET first == CHOOSE r \in rows :
                          \A q \in rows : OrdersSortsBefore(r, q)
         IN  <<first>> \o OrdersOrderBy(rows \ {first})

\* LIMIT n
SqlLimit(rows, n) == SubSeq(rows, 1, Min(n, Len(rows)))

\* The query of list_orders as a whole.
select_orders(settings, limit) ==
    SqlLimit(OrdersOrderBy({JoinedOrder(oid) : oid \in
                 {o \in DOMAIN stg_orders :
                      OrdersWhere(JoinedOrder(o), settings)}}),
             limit)

\* all([order.user_fk, order.restaurant_fk, order.timestamp_fk])
AllFks(order) ==
    /\ order.user_fk # Null
    /\ order.restaurant_fk # Null
    /\ order.timestamp_fk # Null

\* A filter that drops every unresolved row and keeps what follows it.
SkipGaps(orders, i) == SelectSeq(orders, AllFks)

\* for idx, order in enumerate(orders): if not all(...): orders = orders[:idx]; break
\* (positions are 1-based here, so orders[:idx] is the first i - 1 rows).
RECURSIVE TruncateAtGap(_, _)
TruncateAtGap(orders, i) ==
    IF i > Len(orders) THEN orders
    ELSE IF ~AllFks(orders[i]) THEN SubSeq(orders, 1, i - 1)
    ELSE TruncateAtGap(orders, i + 1)

\* list_orders: the query, then the scan for the first missing foreign key.
list_orders(settings, limit) == TruncateAtGap(select_orders(settings, limit), 1)

\* ------------------------------------------------ writer (insert_order)
\* INSERT INTO dds.dm_orders ... ON CONFLICT (order_key) DO UPDATE SET
\* order_status, user_id, restaurant_id, timestamp_id = EXCLUDED.*
insert_order(table, order) ==
    [k \in DOMAIN table \cup {order.object_id} |->
        IF k = order.object_id
        THEN [order_status  |-> order.final_status,
              user_id       |-> order.user_fk,
              restaurant_id |-> order.restaurant_fk,
              timestamp_id  |-> order.timestamp_fk]
        ELSE table[k]]

\* --------------------------------- scoped connection (PgConnect.connection)
\* A commit that makes the written rows durable and leaves the watermark
\* row behind.
ConnectionCommitRowsOnly ==
    /\ dm_orders' = tx_dm_orders
    /\ srv_wf_settings' = srv_wf_settings

\* Leaving the with-block without an exception: conn.commit().
ConnectionCommit ==
    /\ dm_orders' = tx_dm_orders
    /\ srv_wf_settings' = tx_wf_settings

\* An except-branch that keeps what the transaction wrote.
ConnectionKeepsWrites ==
    /\ dm_orders' = tx_dm_orders
    /\ srv_wf_settings' = tx_wf_settings

\* Leaving it by an exception: conn.rollback(), then the exception is re-raised.
ConnectionRollback ==
    /\ dm_orders' = dm_orders
    /\ srv_wf_settings' = srv_wf_settings

\* ------------------------------------------------------ OrdersLoader.run
InRun == pc \in {"list_orders", "insert_order", "exit"}

\* with ... as source, ... as target: / get_setting / OrderSettings(**...)
Open ==
    /\ pc = "idle"
    /\ tx_dm_orders' = dm_orders
    /\ tx_wf_settings' = srv_wf_settings
    /\ order_settings' = ParseOrderSettings(get_setting(srv_wf_settings, OrdersWfKey))
    /\ pc' = "list_orders"
    /\ fetched' = <<>>
    /\ load_queue' = <<>>
    /\ idx' = 1
    /\ did_read' = FALSE
    /\ start_dm_orders' = dm_orders
    /\ start_wf_settings' = srv_wf_settings
    /\ UNCHANGED <<envVars, dbVars, endVars, commitVars>>
    /\ UNCHANGED notOrders

\* load_queue = self.workflow.list_orders(source, order_settings, BATCH_LIMIT)
ListOrders ==
    /\ pc = "list_orders"
    /\ fetched' = select_orders(order_settings, batch_limit)
    /\ load_queue' = list_orders(order_settings, batch_limit)
    /\ idx' = 1
    /\ did_read' = TRUE
    /\ pc' = "insert_order"
    /\ UNCHANGED <<envVars, dbVars, txVars, order_settings, startVars, endVars,
                   commitVars>>
    /\ UNCHANGED notOrders

\* An early return that stores the settings it loaded before it leaves.
QuitEmptySaving ==
    /\ pc = "insert_order"
    /\ load_queue = <<>>
    /\ dm_orders' = tx_dm_orders
    /\ srv_wf_settings' = save_setting(tx_wf_settings, OrdersWfKey, order_settings)
    /\ pc' = "idle"
    /\ result' = "committed"
    /\ env_same' = TRUE
    /\ UNCHANGED <<envVars, txVars, runVars, startVars, commitVars>>
    /\ UNCHANGED notOrders

\* if not load_queue: return -- the with-block is left normally: commit, close.
QuitEmpty ==
    /\ pc = "insert_order"
    /\ load_queue = <<>>
    /\ ConnectionCommit
    /\ pc' = "idle"
    /\ result' = "committed"
    /\ env_same' = TRUE
    /\ UNCHANGED <<envVars, txVars, runVars, startVars, commitVars>>
    /\ UNCHANGED notOrders

\* for order in load_queue: self.workflow.insert_order(target, order)
InsertOrder ==
    /\ pc = "insert_order"
    /\ idx <= Len(load_queue)
    /\ tx_dm_orders' = insert_order(tx_dm_orders, load_queue[idx])
    /\ idx' = idx + 1
    /\ UNCHANGED <<envVars, dbVars, tx_wf_settings, pc, order_settings, fetched,
                   load_queue, did_read, startVars, endVars, commitVars>>
    /\ UNCHANGED notOrders

\* last_loaded_order = max(load_queue); OrderSettings(**...); save_setting(...)
SaveSetting ==
    /\ pc = "insert_order"
    /\ load_queue # <<>>
    /\ idx > Len(load_queue)
    /\ tx_wf_settings' = save_setting(tx_wf_settings, OrdersWfKey,
                                      SettingsOf(max(load_queue)))
    /\ pc' = "exit"
    /\ UNCHANGED <<envVars, dbVars, tx_dm_orders, runVars, startVars, endVars,
                   commitVars>>
    /\ UNCHANGED notOrders

\* The with-block ends: conn.commit(), conn.close().
Commit ==
    /\ pc = "exit"
    /\ ConnectionCommit
    /\ pc' = "idle"
    /\ result' = "committed"
    /\ env_same' = TRUE
    /\ committed_batch' = load_queue
    /\ committed_keys' = committed_keys \cup
           {load_queue[i].object_id : i \in 1..Len(load_queue)}
    /\ UNCHANGED <<envVars, txVars, runVars, startVars>>
    /\ UNCHANGED notOrders

\* The read, a record write or the watermark save raises: except-branch.
Raise ==
    /\ InRun
    /\ ConnectionRollback
    /\ pc' = "idle"
    /\ result' = "failed"
    /\ env_same' = TRUE
    /\ UNCHANGED <<envVars, txVars, runVars, startVars, commitVars>>
    /\ UNCHANGED notOrders

\* The process is stopped (timeout, signal) before the commit: the server
\* discards the open transaction.
Abort ==
    /\ InRun
    /\ pc' = "idle"
    /\ result' = "failed"
    /\ env_same' = TRUE
    /\ UNCHANGED <<envVars, dbVars, txVars, runVars, startVars, commitVars>>
    /\ UNCHANGED notOrders

\* --------------------------------------- the dimension loaders (environment)
\* The dimension pipelines run ahead of the orders pipeline in a scheduled
\* run (sprint5_dag.py: [user, restaurant, timestamp] >> order_loader) and
\* only ever add rows.
LoadUser(u) ==
    /\ pc = "idle"
    /\ u \notin dm_users
    /\ dm_users' = dm_users \cup {u}
    /\ env_same' = FALSE
    /\ UNCHANGED <<stg_orders, batch_limit, dm_restaurants, dm_timestamps, dbVars,
                   txVars, pc, runVars, startVars, result, commitVars>>
    /\ UNCHANGED notOrders

LoadRestaurant(r) ==
    /\ pc = "idle"
    /\ r \notin dm_restaurants
    /\ dm_restaurants' = dm_restaurants \cup {r}
    /\ env_same' = FALSE
    /\ UNCHANGED <<stg_orders, batch_limit, dm_users, dm_timestamps, dbVars,
                   txVars, pc, runVars, startVars, result, commitVars>>
    /\ UNCHANGED notOrders

LoadTimestamp(d) ==
    /\ pc = "idle"
    /\ d \notin dm_timestamps
    /\ dm_timestamps' = dm_timestamps \cup {d}
    /\ env_same' = FALSE
    /\ UNCHANGED <<stg_orders, batch_limit, dm_users, dm_restaurants, dbVars,
                   txVars, pc, runVars, startVars, result, commitVars>>
    /\ UNCHANGED notOrders

\* ------------------------------------------------------------ specification
\* The type-2 dimension tables before anything was written to them.
InitScd ==
    /\ dm_restaurants_rows = {}
    /\ dm_products_rows = {}
    /\ restaurant_log = <<>>
    /\ product_log = <<>>

\* Nothing staged yet; the scheduled run starts with its staging group.
InitStaging ==
    /\ os_restaurants = <<>>
    /\ ds_restaurants = {}
    /\ dag_phase = "stg"
    /\ now = 1

\* No reader is called on its own.
InitNoCall ==
    /\ rd_kind = "none"
    /\ rd_source = <<>>
    /\ rd_settings = <<>>
    /\ rd_limit = 0
    /\ rd_batch = <<>>
    /\ rd_done = FALSE
    /\ rd_page_size = 0
    /\ rd_dest = {}

\* Every order has its own user; all orders share one restaurant and one
\* order date.
StagedRow(oid, ts) ==
    [update_ts |-> ts, user |-> oid, restaurant |-> 1, date |-> 1,
     final_status |-> "CLOSED"]

\* save_setting is not called on its own.
InitNoSave ==
    /\ st_key = "none"
    /\ st_settings = <<>>
    /\ st_before = <<>>

\* The invocation slots: two, so that two invocations can overlap.
Slots == {1, 2}

\* The value of a slot that has saved no settings.
NoSetting == <<>>

\* Both slots idle, nothing staged for them.
InitSlots ==
    /\ cc_pc = [p \in Slots |-> "idle"]
    /\ cc_settings = [p \in Slots |-> NoSetting]
    /\ cc_queue = [p \in Slots |-> <<>>]
    /\ cc_written = [p \in Slots |-> {}]
    /\ cc_tx_setting = [p \in Slots |-> NoSetting]
    /\ cc_dest = [orders |-> {}, users |-> {}, couriers |-> {}]
    /\ cc_before = <<>>
    /\ cc_last = 0

\* No invocation runs in a slot.
InitNoConc ==
    /\ InitSlots
    /\ cc_kind = [p \in Slots |-> "none"]
    /\ ou_users = <<>>
    /\ bu_users = {}
    /\ cc_couriers = <<>>
    /\ cc_max_active = 1

\* No run of the timestamps loader has started; its tables are empty.
InitNoRun ==
    /\ cn_pc = "idle"
    /\ cn_in = "run"
    /\ cn_conn = [c \in {"source", "target"} |-> "none"]
    /\ cn_calls = [c \in {"source", "target"} |-> <<>>]
    /\ cn_left = [c \in {"source", "target"} |-> "none"]
    /\ cn_exc = FALSE
    /\ cn_outcome = "none"
    /\ cn_settings = [last_loaded_ts |-> DatetimeMin]
    /\ cn_queue = <<>>
    /\ cn_idx = 1
    /\ cn_early = FALSE
    /\ cn_ts = {}
    /\ cn_tx_ts = {}
    /\ cn_wf = <<>>
    /\ cn_tx_wf = <<>>
    /\ cn_start = [ts |-> {}, wf |-> <<>>]

\* Nothing is staged for the timestamps loader either.
InitNoConn ==
    /\ InitNoRun
    /\ cn_orders = <<>>

\* No drain-loop invocation has started; source and target are empty.
InitNoLoop ==
    /\ dr_source = {}
    /\ dr_pc = "idle"
    /\ dr_settings = <<>>
    /\ dr_offset = 0
    /\ dr_queue = <<>>
    /\ dr_last = <<>>
    /\ dr_log = <<>>
    /\ dr_written = {}
    /\ dr_table = {}
    /\ dr_tx_table = {}
    /\ dr_tx_wf = <<>>

\* No drain-loop loader is looked at.
InitNoDrain ==
    /\ InitNoLoop
    /\ dr_kind = "none"

\* No single-batch invocation has started; nothing is loaded.
InitNoStep ==
    /\ sb_pc = "idle"
    /\ sb_settings = <<>>
    /\ sb_queue = <<>>
    /\ sb_fetched = <<>>
    /\ sb_idx = 1
    /\ sb_log = <<>>
    /\ sb_table = {}
    /\ sb_tx_table = {}
    /\ sb_tx_wf = <<>>
    /\ sb_own_dim = {}
    /\ sb_shared_dim = {}

\* No single-batch loader is looked at.
InitNoBatch ==
    /\ InitNoStep
    /\ sb_kind = "none"
    /\ sb_source = <<>>
    /\ sb_limit = 1

\* No call of a paginated reader is looked at.
InitNoPaging ==
    /\ pl_pc = "none"
    /\ pl_offset = 0
    /\ pl_records = <<>>
    /\ pl_requests = <<>>
    /\ pl_result = <<>>

\* No offset-checkpointed loader is looked at.
InitNoOffset ==
    /\ of_kind = "none"
    /\ of_limit = 1
    /\ of_source = {}
    /\ of_staged = {}
    /\ of_wf = <<>>
    /\ of_last = [before |-> 0, written |-> 0]

\* The sales loader on rows that share a key is not looked at.
InitNoTies ==
    /\ ps_lines = {}
    /\ ps_limit = 1
    /\ ps_wf = <<>>
    /\ ps_facts = <<>>
    /\ ps_written = {}
    /\ ps_queue = <<>>

\* No writer is called on its own.
InitNoConflict ==
    /\ cf_kind = "none"
    /\ cf_rows = {}
    /\ cf_first = <<>>
    /\ cf_last = <<>>
    /\ cf_raised = FALSE

\* The graph of tasks is not looked at.
InitNoDag ==
    /\ dag_state = <<>>
    /\ dag_fails = {}

\* SchemaDdl.init is not called.
InitNoDdl ==
    /\ ddl_mtime = <<>>
    /\ ddl_fails = {}
    /\ ddl_prev = Null
    /\ ddl_listing = <<>>
    /\ ddl_paths = <<>>
    /\ ddl_i = 1
    /\ ddl_pc = "none"
    /\ ddl_tx = Null
    /\ ddl_committed = <<>>
    /\ ddl_executed = <<>>

InitNoOps ==
    /\ InitNoConflict
    /\ InitNoDag
    /\ InitNoDdl

InitNoExt ==
    /\ InitNoPaging
    /\ InitNoOffset
    /\ InitNoTies
    /\ InitNoOps

\* What no pipeline of the scheduled run touches is empty.
InitAux ==
    /\ InitNoSave
    /\ fct_product_sales = <<>>
    /\ InitNoConc
    /\ InitNoConn
    /\ InitNoDrain
    /\ InitNoBatch
    /\ InitNoExt

\* Nothing loaded yet, no invocation yet.
InitLoader ==
    /\ dm_orders = <<>>
    /\ srv_wf_settings = <<>>
    /\ tx_dm_orders = <<>>
    /\ tx_wf_settings = <<>>
    /\ pc = "idle"
    /\ order_settings = DefaultOrderSettings
    /\ fetched = <<>>
    /\ load_queue = <<>>
    /\ idx = 1
    /\ did_read = FALSE
    /\ result = "none"
    /\ start_dm_orders = <<>>
    /\ start_wf_settings = <<>>
    /\ env_same = TRUE
    /\ committed_batch = <<>>
    /\ committed_keys = {}

Init ==
    /\ \E ts \in [Orders -> Ticks] :
           stg_orders = [o \in Orders |-> StagedRow(o, ts[o])]
    /\ batch_limit = BatchLimit
    /\ dm_users = {}
    /\ dm_restaurants = {}
    /\ dm_timestamps = {}
    /\ InitLoader
    /\ InitAux
    /\ InitScd
    /\ InitStaging
    /\ InitNoCall

Next ==
    \/ Open
    \/ ListOrders
    \/ QuitEmpty
    \/ InsertOrder
    \/ SaveSetting
    \/ Commit
    \/ Raise
    \/ Abort
    \/ \E o \in DOMAIN stg_orders : LoadUser(stg_orders[o].user)
    \/ \E o \in DOMAIN stg_orders : LoadRestaurant(stg_orders[o].restaurant)
    \/ \E o \in DOMAIN stg_orders : LoadTimestamp(stg_orders[o].date)

Spec == Init /\ [][Next]_vars

\* ------------------------------------------- a read across a reference gap
\* The staged orders in the order the reader returns them.
GapOrder ==
    OrdersOrderBy({[object_id |-> o, update_ts |-> stg_orders[o].update_ts] :
                       o \in DOMAIN stg_orders})

\* GapBatch orders are staged and the limit admits them all; every dimension
\* row is there but the user of the third order in reading order.
InitGap ==
    /\ \E ts \in [1..GapBatch -> Ticks] :
           stg_orders = [o \in 1..GapBatch |-> StagedRow(o, ts[o])]
    /\ batch_limit = GapBatch
    /\ dm_users = {stg_orders[o].user : o \in DOMAIN stg_orders}
                      \ {stg_orders[GapOrder[3].object_id].user}
    /\ dm_restaurants = {stg_orders[o].restaurant : o \in DOMAIN stg_orders}
    /\ dm_timestamps = {stg_orders[o].date : o \in DOMAIN stg_orders}
    /\ InitLoader
    /\ InitAux
    /\ InitScd
    /\ InitStaging
    /\ InitNoCall

\* Invocations that end normally, and the users loader catching up.
NextGap ==
    \/ Open
    \/ ListOrders
    \/ QuitEmpty
    \/ InsertOrder
    \/ SaveSetting
    \/ Commit
    \/ \E o \in DOMAIN stg_orders : LoadUser(stg_orders[o].user)

SpecGap == InitGap /\ [][NextGap]_vars

\* ---------------------------- type-2 writers (insert_restaurant, insert_product)
\* A table row is [id, key, payload, active_from, active_to]: the serial id,
\* the natural key (restaurant_id / product_id), the versioned columns and
\* the validity interval.

\* datetime(2099, 12, 31), the active_to of an open row, in years.
ActiveToSentinel == 2099

\* nextval of the serial id column.
NextId(table) ==
    IF table = {} THEN 1
    ELSE 1 + (CHOOSE n \in {r.id : r \in table} : \A r \in table : r.id <= n)

\* (SELECT MAX(id) AS id FROM <table> WHERE <key column> = %(key)s) latest:
\* one row; its id is NULL when no row has the key.
LatestId(table, key) ==
    LET ids == {r.id : r \in {q \in table : q.key = key}}
    IN  IF ids = {} THEN Null ELSE CHOOSE n \in ids : \A k \in ids : k <= n

\* The sub-statement of the WITH clause:
\*   UPDATE <table> r SET active_to = %(active_from)s FROM (...) latest
\*   WHERE r.id = latest.id AND r.<versioned columns> != %(...)s
\* run on the rows of 'table', 'latest' being computed on 'snapshot'.
ScdUpdate(table, snapshot, key, payload, active_from) ==
    {IF r.id = LatestId(snapshot, key) /\ r.payload # payload
     THEN [r EXCEPT !.active_to = active_from]
     ELSE r : r \in table}

\* The main statement:
\*   INSERT INTO <table>(...) VALUES (..., %(active_from)s, %(active_to)s)
\*   ON CONFLICT (<key column>, active_to) DO NOTHING
ScdInsert(table, key, payload, active_from) ==
    IF \E r \in table : r.key = key /\ r.active_to = ActiveToSentinel
    THEN table
    ELSE table \cup {[id |-> NextId(table), key |-> key, payload |-> payload,
                      active_from |-> active_from, active_to |-> ActiveToSentinel]}

\* The statement as a whole.  The UPDATE is a data-modifying sub-statement
\* of WITH that the main statement does not refer to: both run on the
\* snapshot taken when the statement starts, and which of the two modifies
\* the table first is not determined by the statement.  The result is one
\* of the two tables.
ScdWrite(table, key, payload, active_from) ==
    {ScdInsert(ScdUpdate(table, table, key, payload, active_from),
               key, payload, active_from),
     ScdUpdate(ScdInsert(table, key, payload, active_from),
               table, key, payload, active_from)}

\* insert_restaurant(target, restaurant): the tables it can leave.
insert_restaurant(table, restaurant) ==
    ScdWrite(table, restaurant.object_id, [restaurant_name |-> restaurant.name],
             restaurant.update_ts)

\* insert_product(target, product): the tables it can leave.
insert_product(table, product) ==
    ScdWrite(table, product.product_id,
             [product_name  |-> product.name,
              product_price |-> product.price,
              restaurant_id |-> product.restaurant_fk],
             product.update_ts)

\* ------------------------------------------- versioned writes to one entity
Names == {"A", "B"}

\* The versions of one staged entity as a loader gets to read them: the row
\* read again as it is, or the row after a later update of the source.
NextVersion(log, name, ts) ==
    \/ log = <<>>
    \/ /\ log # <<>>
       /\ \/ [name |-> name, update_ts |-> ts] = log[Len(log)]
          \/ ts > log[Len(log)].update_ts

\* One insert_restaurant call on restaurant 1.
WriteRestaurant(name, ts) ==
    /\ Len(restaurant_log) < MaxWrites
    /\ NextVersion(restaurant_log, name, ts)
    /\ dm_restaurants_rows' \in
           insert_restaurant(dm_restaurants_rows,
                             [object_id |-> 1, name |-> name, update_ts |-> ts])
    /\ restaurant_log' = Append(restaurant_log, [name |-> name, update_ts |-> ts])
    /\ UNCHANGED <<ordersVars, stagingVars, readerVars, auxVars, dm_products_rows, product_log>>

\* One insert_product call on product 1 of restaurant 1.
WriteProduct(name, ts) ==
    /\ Len(product_log) < MaxWrites
    /\ NextVersion(product_log, name, ts)
    /\ dm_products_rows' \in
           insert_product(dm_products_rows,
                          [product_id |-> 1, restaurant_id |-> 1, name |-> name,
                           price |-> 1, update_ts |-> ts, restaurant_fk |-> 1])
    /\ product_log' = Append(product_log, [name |-> name, update_ts |-> ts])
    /\ UNCHANGED <<ordersVars, stagingVars, readerVars, auxVars, dm_restaurants_rows,
                   restaurant_log>>

\* No pipeline runs; the dimension tables start empty.
InitVersions ==
    /\ stg_orders = <<>>
    /\ batch_limit = BatchLimit
    /\ dm_users = {}
    /\ dm_restaurants = {}
    /\ dm_timestamps = {}
    /\ InitLoader
    /\ InitAux
    /\ InitScd
    /\ InitStaging
    /\ InitNoCall

NextVersions ==
    \/ \E name \in Names, ts \in Ticks : WriteRestaurant(name, ts)
    \/ \E name \in Names, ts \in Ticks : WriteProduct(name, ts)

SpecScd == InitVersions /\ [][NextVersions]_vars

\* ------------------------------- restaurants pipeline (dm_restaurants_loader.py)
RestaurantsWfKey == "restaurants_stg_to_dds_workflow"
RestaurantsBatchLimit == 2

\* RestaurantSettings(): the field defaults.
DefaultRestaurantSettings ==
    [last_loaded_ts |-> DatetimeMin, last_loaded_oid |-> ObjectIdZero]

\* RestaurantObj.__lt__
RestaurantLt(a, b) ==
    TupleLt(<<a.update_ts, a.object_id>>, <<b.update_ts, b.object_id>>)

\* ORDER BY of a query: 'keyed' is a set of [k, row], k being the tuple of
\* the ORDER BY columns of the row.
RECURSIVE OrderBy(_)
OrderBy(keyed) ==
    IF keyed = {} THEN <<>>
    ELSE LET first == CHOOSE r \in keyed :
                          \A q \in keyed : r.k = q.k \/ TupleLt(r.k, q.k)
         IN  <<first.row>> \o OrderBy(keyed \ {first})

\* WHERE os.update_ts > ts_threshold OR
\*       (os.update_ts = ts_threshold AND os.object_id > oid_threshold)
RestaurantsWhere(os, oid, settings) ==
    \/ os[oid].update_ts > settings.last_loaded_ts
    \/ /\ os[oid].update_ts = settings.last_loaded_ts
       /\ oid > settings.last_loaded_oid

\* SELECT dr.object_id, name, os.update_ts FROM stg.ordersystem_restaurants os
\* LEFT JOIN stg.deliverysystem_restaurants dr ON dr.object_id = os.object_id
\* WHERE ... ORDER BY os.update_ts, os.object_id LIMIT n
select_restaurants(os, ds, settings, limit) ==
    SqlLimit(OrderBy({[k   |-> <<os[oid].update_ts, oid>>,
                       row |-> [object_id |-> IF oid \in ds THEN oid ELSE Null,
                                name      |-> os[oid].name,
                                update_ts |-> os[oid].update_ts]] :
                      oid \in {o \in DOMAIN os : RestaurantsWhere(os, o, settings)}}),
             limit)

\* for idx, restaurant in enumerate(restaurants):
\*     if not restaurant.object_id: restaurants = restaurants[:idx]; break
RECURSIVE TruncateAtNoObjectId(_, _)
TruncateAtNoObjectId(restaurants, i) ==
    IF i > Len(restaurants) THEN restaurants
    ELSE IF restaurants[i].object_id = Null THEN SubSeq(restaurants, 1, i - 1)
    ELSE TruncateAtNoObjectId(restaurants, i + 1)

list_restaurants(os, ds, settings, limit) ==
    TruncateAtNoObjectId(select_restaurants(os, ds, settings, limit), 1)

\* max(load_queue) of restaurants.
RECURSIVE MaxRestaurantFrom(_, _, _)
MaxRestaurantFrom(queue, i, best) ==
    IF i > Len(queue) THEN best
    ELSE MaxRestaurantFrom(queue, i + 1,
                           IF RestaurantLt(best, queue[i]) THEN queue[i] ELSE best)

max_restaurant(queue) == MaxRestaurantFrom(queue, 2, queue[1])

\* for restaurant in load_queue: insert_restaurant(target, restaurant) --
\* the tables the loop can leave, starting from any of 'tables'.
RECURSIVE InsertRestaurants(_, _, _)
InsertRestaurants(tables, queue, i) ==
    IF i > Len(queue) THEN tables
    ELSE InsertRestaurants(UNION {insert_restaurant(t, queue[i]) : t \in tables},
                           queue, i + 1)

\* RestaurantsLoader.run, an invocation that ends normally, as one step.
RunRestaurants ==
    /\ dag_phase = "restaurants"
    /\ LET rest_settings ==
               ParseSettings(get_setting(srv_wf_settings, RestaurantsWfKey),
                             DefaultRestaurantSettings)
           queue == list_restaurants(os_restaurants, ds_restaurants, rest_settings,
                                     RestaurantsBatchLimit)
       IN  IF queue = <<>>
           THEN UNCHANGED <<dm_restaurants_rows, srv_wf_settings>>
           ELSE /\ dm_restaurants_rows' \in
                       InsertRestaurants({dm_restaurants_rows}, queue, 1)
                /\ srv_wf_settings' =
                       save_setting(srv_wf_settings, RestaurantsWfKey,
                                    [last_loaded_ts  |-> max_restaurant(queue).update_ts,
                                     last_loaded_oid |-> max_restaurant(queue).object_id])
    /\ dag_phase' = "products"
    /\ UNCHANGED <<ordersButSettings, readerVars, auxVars, os_restaurants, ds_restaurants,
                   now, dm_products_rows, restaurant_log, product_log>>

\* ------------------------------------- products pipeline (dm_products_loader.py)
ProductsWfKey == "products_stg_to_dds_workflow"
ProductsBatchLimit == 100

Restaurants == 1..NRestaurants

\* The _id values of "or".object_value -> 'menu' of a staged restaurant.
Menu(oid) == {(oid - 1) * MenuSize + n : n \in 1..MenuSize}

\* ProductSettings(): the field defaults.
DefaultProductSettings ==
    [last_loaded_ts            |-> DatetimeMin,
     last_loaded_restaurant_id |-> ObjectIdZero,
     last_loaded_product_id    |-> ObjectIdZero]

\* ProductObj.__lt__
ProductLt(a, b) ==
    TupleLt(<<a.update_ts, a.restaurant_id, a.product_id>>,
            <<b.update_ts, b.restaurant_id, b.product_id>>)

\* A WHERE clause that leaves the product id out of the comparison.
ProductsWhereNoProductId(update_ts, restaurant_id, product_id, settings) ==
    \/ update_ts > settings.last_loaded_ts
    \/ /\ update_ts = settings.last_loaded_ts
       /\ restaurant_id >= settings.last_loaded_restaurant_id

\* WHERE "or".update_ts > ts OR ("or".update_ts = ts AND
\*   (dr.restaurant_id > rid OR (dr.restaurant_id = rid AND product._id > pid)))
ProductsWhere(update_ts, restaurant_id, product_id, settings) ==
    \/ update_ts > settings.last_loaded_ts
    \/ /\ update_ts = settings.last_loaded_ts
       /\ \/ restaurant_id > settings.last_loaded_restaurant_id
          \/ /\ restaurant_id = settings.last_loaded_restaurant_id
             /\ product_id > settings.last_loaded_product_id

\* stg.ordersystem_restaurants "or" CROSS JOIN json_to_recordset(menu) product
\* INNER JOIN dds.dm_restaurants dr ON dr.restaurant_id = "or".object_id:
\* the (restaurant, product) pairs of the restaurants that have a row in dr.
ProductsJoin(os, dr) ==
    {<<oid, pid>> \in (DOMAIN os) \X (UNION {Menu(o) : o \in DOMAIN os}) :
        /\ pid \in Menu(oid)
        /\ \E r \in dr : r.key = oid}

\* list_products: SELECT ... MAX(dr.id) AS restaurant_fk ... WHERE ...
\* GROUP BY ... ORDER BY "or".update_ts, dr.restaurant_id, product._id LIMIT n
list_products(os, dr, settings, limit) ==
    SqlLimit(OrderBy({[k   |-> <<os[j[1]].update_ts, j[1], j[2]>>,
                       row |-> [product_id    |-> j[2],
                                restaurant_id |-> j[1],
                                name          |-> "P",
                                price         |-> 1,
                                update_ts     |-> os[j[1]].update_ts,
                                restaurant_fk |-> LatestId(dr, j[1])]] :
                      j \in {q \in ProductsJoin(os, dr) :
                                ProductsWhere(os[q[1]].update_ts, q[1], q[2], settings)}}),
             limit)

\* max(load_queue) of products.
RECURSIVE MaxProductFrom(_, _, _)
MaxProductFrom(queue, i, best) ==
    IF i > Len(queue) THEN best
    ELSE MaxProductFrom(queue, i + 1,
                        IF ProductLt(best, queue[i]) THEN queue[i] ELSE best)

max_product(queue) == MaxProductFrom(queue, 2, queue[1])

\* for product in load_queue: insert_product(target, product)
RECURSIVE InsertProducts(_, _, _)
InsertProducts(tables, queue, i) ==
    IF i > Len(queue) THEN tables
    ELSE InsertProducts(UNION {insert_product(t, queue[i]) : t \in tables},
                        queue, i + 1)

\* The ProductSettings the next invocation of the products loader loads.
ProductSettingsLoaded ==
    ParseSettings(get_setting(srv_wf_settings, ProductsWfKey), DefaultProductSettings)

\* ProductsLoader.run, an invocation that ends normally, as one step.
RunProducts ==
    /\ dag_phase = "products"
    /\ LET queue == list_products(os_restaurants, dm_restaurants_rows,
                                  ProductSettingsLoaded, ProductsBatchLimit)
       IN  IF queue = <<>>
           THEN UNCHANGED <<dm_products_rows, srv_wf_settings>>
           ELSE /\ dm_products_rows' \in InsertProducts({dm_products_rows}, queue, 1)
                /\ srv_wf_settings' =
                       save_setting(srv_wf_settings, ProductsWfKey,
                           [last_loaded_ts            |-> max_product(queue).update_ts,
                            last_loaded_restaurant_id |-> max_product(queue).restaurant_id,
                            last_loaded_product_id    |-> max_product(queue).product_id])
    /\ dag_phase' = "stg"
    /\ UNCHANGED <<ordersButSettings, readerVars, auxVars, os_restaurants, ds_restaurants,
                   now, dm_restaurants_rows, restaurant_log, product_log>>

\* ------------------------------------------------ staging of the restaurants
\* stg_2 insert_restaurant: a restaurant document of the order system, as
\* created or updated at the source at time 'now', is upserted by object_id.
StageRestaurant(oid, name) ==
    /\ dag_phase = "stg"
    /\ now <= MaxTick
    /\ os_restaurants' =
           [o \in DOMAIN os_restaurants \cup {oid} |->
               IF o = oid THEN [update_ts |-> now, name |-> name]
               ELSE os_restaurants[o]]
    /\ now' = now + 1
    /\ UNCHANGED <<ordersVars, scdVars, readerVars, auxVars, ds_restaurants, dag_phase>>

\* stg_3 insert_restaurant: a restaurant of the delivery system is staged.
StageDeliveryRestaurant(oid) ==
    /\ dag_phase = "stg"
    /\ oid \notin ds_restaurants
    /\ ds_restaurants' = ds_restaurants \cup {oid}
    /\ UNCHANGED <<ordersVars, scdVars, readerVars, auxVars, os_restaurants, dag_phase, now>>

\* dwh_init >> [stg_1, stg_2, stg_3] >> dds: the staging group is done.
StagingDone ==
    /\ dag_phase = "stg"
    /\ dag_phase' = "restaurants"
    /\ UNCHANGED <<ordersVars, scdVars, readerVars, auxVars, os_restaurants, ds_restaurants,
                   now>>

InitProducts ==
    /\ stg_orders = <<>>
    /\ batch_limit = BatchLimit
    /\ dm_users = {}
    /\ dm_restaurants = {}
    /\ dm_timestamps = {}
    /\ InitLoader
    /\ InitAux
    /\ InitScd
    /\ InitStaging
    /\ InitNoCall

NextProducts ==
    \/ \E oid \in Restaurants, name \in Names : StageRestaurant(oid, name)
    \/ \E oid \in Restaurants : StageDeliveryRestaurant(oid)
    \/ StagingDone
    \/ RunRestaurants
    \/ RunProducts

SpecProducts == InitProducts /\ [][NextProducts]_vars

\* ----------------------------------------- plain readers (stg_1, stg_2 loaders)
\* EventSettings.last_loaded_id: default=-1
EventIdDefault == -1

\* WHERE event_ts > ts_threshold OR (event_ts = ts_threshold AND id > id_threshold)
EventsWhere(outbox, id, settings) ==
    \/ outbox[id] > settings.last_loaded_ts
    \/ /\ outbox[id] = settings.last_loaded_ts
       /\ id > settings.last_loaded_id

\* EventsToStgWorkflow.list_events:
\* SELECT id, event_ts, ... FROM outbox WHERE ... ORDER BY event_ts, id LIMIT n
list_events(outbox, settings, limit) ==
    SqlLimit(OrderBy({[k   |-> <<outbox[id], id>>,
                       row |-> [id |-> id, event_ts |-> outbox[id]]] :
                      id \in {i \in DOMAIN outbox : EventsWhere(outbox, i, settings)}}),
             limit)

\* filter={'$or': [{'update_ts': {'$gt': ts}},
\*                 {'$and': [{'update_ts': {'$eq': ts}}, {'_id': {'$gt': oid}}]}]}
MongoFilter(collection, id, settings) ==
    \/ collection[id] > settings.last_loaded_ts
    \/ /\ collection[id] = settings.last_loaded_ts
       /\ id > settings.last_loaded_oid

\* find(..., limit=n): a limit of 0 is no limit.
MongoLimit(docs, n) == IF n = 0 THEN docs ELSE SubSeq(docs, 1, Min(n, Len(docs)))

\* OrdersToStgWorkflow.list_orders (stg_2):
\* find(filter=..., sort=[('update_ts', 1), ('_id', 1)], limit=n)
mongo_list_orders(collection, settings, limit) ==
    MongoLimit(OrderBy({[k   |-> <<collection[id], id>>,
                         row |-> [object_id |-> id, update_ts |-> collection[id]]] :
                        id \in {i \in DOMAIN collection :
                                   MongoFilter(collection, i, settings)}}),
               limit)

\* The datetimes a loaded last_loaded_ts can be: what a stored string parses to.
StoredDatetimes == {ParseDatetime(sec) : sec \in 0..(MaxTick \div TicksPerSec)}

\* A dds.dm_restaurants that has one open row for each restaurant of 'oids'
\* and an earlier, closed row for each restaurant of 'versioned'.
DimensionOf(oids, versioned) ==
    {[id |-> NRestaurants + oid, key |-> oid, payload |-> [restaurant_name |-> "A"],
      active_from |-> 1, active_to |-> ActiveToSentinel] : oid \in oids}
    \cup
    {[id |-> oid, key |-> oid, payload |-> [restaurant_name |-> "B"],
      active_from |-> 0, active_to |-> 1] : oid \in versioned}

\* One call of list_events on some outbox.
InitEvents ==
    /\ rd_kind = "events"
    /\ rd_source \in [1..NRecords -> Ticks]
    /\ rd_settings \in [last_loaded_ts : StoredDatetimes,
                         last_loaded_id : {EventIdDefault} \cup 1..NRecords]
    /\ os_restaurants = <<>>
    /\ dm_restaurants_rows = {}

\* One call of the stg_2 list_orders on some collection.
InitMongoOrders ==
    /\ rd_kind = "orders"
    /\ rd_source \in [1..NRecords -> Ticks]
    /\ rd_settings \in [last_loaded_ts : StoredDatetimes,
                         last_loaded_oid : {ObjectIdZero} \cup 1..NRecords]
    /\ os_restaurants = <<>>
    /\ dm_restaurants_rows = {}

\* One call of list_products on some staged restaurants, some of them
\* being in dds.dm_restaurants.
InitListProducts ==
    /\ rd_kind = "products"
    /\ rd_source = <<>>
    /\ rd_settings \in [last_loaded_ts            : StoredDatetimes,
                         last_loaded_restaurant_id : {ObjectIdZero} \cup Restaurants,
                         last_loaded_product_id    :
                             {ObjectIdZero} \cup UNION {Menu(o) : o \in Restaurants}]
    /\ \E ts \in [Restaurants -> Ticks] :
           os_restaurants = [o \in Restaurants |-> [update_ts |-> ts[o], name |-> "A"]]
    /\ \E oids \in SUBSET Restaurants :
           \E versioned \in SUBSET oids :
               dm_restaurants_rows = DimensionOf(oids, versioned)

InitReader ==
    /\ stg_orders = <<>>
    /\ batch_limit = BatchLimit
    /\ dm_users = {}
    /\ dm_restaurants = {}
    /\ dm_timestamps = {}
    /\ InitLoader
    /\ InitAux
    /\ dm_products_rows = {}
    /\ restaurant_log = <<>>
    /\ product_log = <<>>
    /\ ds_restaurants = {}
    /\ dag_phase = "stg"
    /\ now = 1
    /\ rd_limit \in 1..MaxLimit
    /\ rd_batch = <<>>
    /\ rd_done = FALSE
    /\ rd_page_size = 0
    /\ rd_dest = {}
    /\ \/ InitEvents
       \/ InitMongoOrders
       \/ InitListProducts

ReadEvents ==
    /\ rd_kind = "events"
    /\ ~rd_done
    /\ rd_batch' = list_events(rd_source, rd_settings, rd_limit)
    /\ rd_done' = TRUE
    /\ UNCHANGED <<ordersVars, scdVars, stagingVars, auxVars, rd_kind, rd_source, rd_settings,
                   rd_limit, rd_page_size, rd_dest>>

ReadMongoOrders ==
    /\ rd_kind = "orders"
    /\ ~rd_done
    /\ rd_batch' = mongo_list_orders(rd_source, rd_settings, rd_limit)
    /\ rd_done' = TRUE
    /\ UNCHANGED <<ordersVars, scdVars, stagingVars, auxVars, rd_kind, rd_source, rd_settings,
                   rd_limit, rd_page_size, rd_dest>>

ReadProducts ==
    /\ rd_kind = "products"
    /\ ~rd_done
    /\ rd_batch' = list_products(os_restaurants, dm_restaurants_rows, rd_settings,
                                 rd_limit)
    /\ rd_done' = TRUE
    /\ UNCHANGED <<ordersVars, scdVars, stagingVars, auxVars, rd_kind, rd_source, rd_settings,
                   rd_limit, rd_page_size, rd_dest>>

NextReader ==
    \/ ReadEvents
    \/ ReadMongoOrders
    \/ ReadProducts

SpecReader == InitReader /\ [][NextReader]_vars

\* ------------------------------------- paginated readers (stg_3 loaders)
\* GET <method>?sort_direction=asc&offset=..&limit=..: the records the
\* endpoint serves, in its order, from position offset + 1, at most 'limit'.
HttpPage(served, offset, limit) ==
    SubSeq(served, offset + 1, Min(offset + limit, Len(served)))

\* while offset < limit: batch = list(offset=base + offset, limit=page_size)
\*     if not batch: break
\*     records += batch; offset += len(batch)
RECURSIVE PagedLoop(_, _, _, _, _, _)
PagedLoop(served, base, page_size, limit, offset, records) ==
    IF ~(offset < limit) THEN records
    ELSE LET batch == HttpPage(served, base + offset, page_size)
         IN  IF batch = <<>> THEN records
             ELSE PagedLoop(served, base, page_size, limit, offset + Len(batch),
                            records \o batch)

\* A return that hands over everything the loop has accumulated.
NoSlice(records, limit) == records

\* records[:limit], limit >= 0
Slice(records, limit) == SubSeq(records, 1, Min(limit, Len(records)))

\* DeliveriesToStgWorkflow.list_deliveries: 'served' is what /deliveries
\* serves for the 'from' of the settings.
list_deliveries(served, page_size, limit) ==
    Slice(PagedLoop(served, 0, page_size, limit, 0, <<>>), limit)

\* CouriersToStgWorkflow.list_couriers: the pages start at the stored offset.
list_couriers(served, courier_settings, page_size, limit) ==
    Slice(PagedLoop(served, courier_settings.offset, page_size, limit, 0, <<>>),
          limit)

\* One call of a paginated reader on an endpoint that serves m records.
InitPaged ==
    /\ stg_orders = <<>>
    /\ batch_limit = BatchLimit
    /\ dm_users = {}
    /\ dm_restaurants = {}
    /\ dm_timestamps = {}
    /\ InitLoader
    /\ InitAux
    /\ InitScd
    /\ InitStaging
    /\ rd_batch = <<>>
    /\ rd_done = FALSE
    /\ rd_limit \in 0..PagedLimit
    /\ rd_page_size \in 1..MaxPageSize
    /\ rd_dest = {}
    /\ \E m \in 0..PagedRecords : rd_source = [i \in 1..m |-> i]
    /\ \/ /\ rd_kind = "deliveries"
          /\ rd_settings = [offset |-> 0]
       \/ /\ rd_kind = "couriers"
          /\ rd_settings \in [offset : 0..Len(rd_source)]

ReadDeliveries ==
    /\ rd_kind = "deliveries"
    /\ ~rd_done
    /\ rd_batch' = list_deliveries(rd_source, rd_page_size, rd_limit)
    /\ rd_done' = TRUE
    /\ UNCHANGED <<ordersVars, scdVars, stagingVars, auxVars, rd_kind, rd_source, rd_settings,
                   rd_limit, rd_page_size, rd_dest>>

ReadCouriers ==
    /\ rd_kind = "couriers"
    /\ ~rd_done
    /\ rd_batch' = list_couriers(rd_source, rd_settings, rd_page_size, rd_limit)
    /\ rd_done' = TRUE
    /\ UNCHANGED <<ordersVars, scdVars, stagingVars, auxVars, rd_kind, rd_source, rd_settings,
                   rd_limit, rd_page_size, rd_dest>>

NextPaged ==
    \/ ReadDeliveries
    \/ ReadCouriers

SpecPaged == InitPaged /\ [][NextPaged]_vars

\* ----------------------------- the paging loop, request by request (stg_3)
\* What a step of the paging loop leaves alone.
notPaging == <<ordersVars, scdVars, stagingVars, storeVars, fct_product_sales,
               concVars, connVars, drainVars, batchVars, rd_kind, rd_source,
               rd_settings, rd_limit, rd_page_size, rd_batch, rd_done, rd_dest,
               offsetVars, tiesVars, opsVars>>

\* A request that leaves the stored offset out of its 'offset' parameter.
RequestPageFromZero ==
    /\ pl_pc = "loop"
    /\ pl_offset < rd_limit
    /\ LET batch == HttpPage(rd_source, pl_offset, rd_page_size)
       IN  /\ pl_requests' = Append(pl_requests,
                                    [offset |-> pl_offset, before |-> Len(pl_records),
                                     n |-> Len(batch)])
           /\ IF batch = <<>>
              THEN /\ pl_pc' = "return"
                   /\ UNCHANGED <<pl_records, pl_offset>>
              ELSE /\ pl_records' = pl_records \o batch
                   /\ pl_offset' = pl_offset + Len(batch)
                   /\ pl_pc' = "loop"
    /\ UNCHANGED <<notPaging, pl_result>>

\* while offset < limit: batch = super().list(..., params={'offset':
\* courier_settings.offset + offset, 'limit': page_size}); if not batch:
\* break; couriers += batch; offset += len(batch)
RequestPage ==
    /\ pl_pc = "loop"
    /\ pl_offset < rd_limit
    /\ LET batch == HttpPage(rd_source, rd_settings.offset + pl_offset, rd_page_size)
       IN  /\ pl_requests' = Append(pl_requests,
                                    [offset |-> rd_settings.offset + pl_offset,
                                     before |-> Len(pl_records), n |-> Len(batch)])
           /\ IF batch = <<>>
              THEN /\ pl_pc' = "return"
                   /\ UNCHANGED <<pl_records, pl_offset>>
              ELSE /\ pl_records' = pl_records \o batch
                   /\ pl_offset' = pl_offset + Len(batch)
                   /\ pl_pc' = "loop"
    /\ UNCHANGED <<notPaging, pl_result>>

\* The loop is left, by its condition or by the break: return couriers[:limit]
ReturnSlice ==
    /\ \/ pl_pc = "return"
       \/ pl_pc = "loop" /\ ~(pl_offset < rd_limit)
    /\ pl_result' = Slice(pl_records, rd_limit)
    /\ pl_pc' = "done"
    /\ UNCHANGED <<notPaging, pl_records, pl_offset, pl_requests>>

\* One call of list_couriers or list_restaurants of the delivery system: an
\* endpoint that serves m records, a stored offset, a page size, a limit.
InitPaging ==
    /\ stg_orders = <<>>
    /\ batch_limit = BatchLimit
    /\ dm_users = {}
    /\ dm_restaurants = {}
    /\ dm_timestamps = {}
    /\ InitLoader
    /\ InitNoSave
    /\ fct_product_sales = <<>>
    /\ InitNoConc
    /\ InitNoConn
    /\ InitNoDrain
    /\ InitNoBatch
    /\ InitScd
    /\ InitStaging
    /\ rd_batch = <<>>
    /\ rd_done = FALSE
    /\ rd_dest = {}
    /\ rd_kind \in {"couriers", "restaurants"}
    /\ rd_limit \in 0..PagedLimit
    /\ rd_page_size \in 1..MaxPageSize
    /\ \E m \in 0..PagedRecords : rd_source = [i \in 1..m |-> i]
    /\ rd_settings \in [offset : 0..(Len(rd_source) + 1)]
    /\ InitNoOffset
    /\ InitNoTies
    /\ pl_pc = "loop"
    /\ pl_offset = 0
    /\ pl_records = <<>>
    /\ pl_requests = <<>>
    /\ pl_result = <<>>
    /\ InitNoOps

NextPaging ==
    \/ RequestPage
    \/ ReturnSlice

\* A call that has started runs on.
SpecPaging ==
    /\ InitPaging
    /\ [][NextPaging]_vars
    /\ WF_vars(NextPaging)

\* ------------------ the offset-checkpointed loaders of the delivery system
\* CouriersLoader.WF_KEY / RestaurantsLoader.WF_KEY (stg_3)
OffsetWfKey(kind) ==
    IF kind = "couriers" THEN "deliverysystem_couriers_origin_to_stg_workflow"
    ELSE "deliverysystem_restaurants_origin_to_stg_workflow"

\* page_size = 50
HttpPageSize == 50

\* CourierSettings() / RestaurantSettings() of stg_3: the field defaults.
DefaultOffsetSettings == [last_loaded_oid |-> ObjectIdZero, offset |-> 0]

\* sort_field=id, sort_direction=asc: the ids the endpoint has, ascending.
RECURSIVE SortedIds(_)
SortedIds(ids) ==
    IF ids = {} THEN <<>>
    ELSE LET least == CHOOSE i \in ids : \A j \in ids : i <= j
         IN  <<least>> \o SortedIds(ids \ {least})

\* max(load_queue) under CourierObj.__lt__: by object_id.
MaxOid(queue) ==
    CHOOSE i \in {queue[k] : k \in 1..Len(queue)} : \A k \in 1..Len(queue) : queue[k] <= i

\* What a step of an offset-checkpointed loader leaves alone.
notOffset == <<ordersVars, scdVars, stagingVars, readerVars, storeVars,
               fct_product_sales, concVars, connVars, drainVars, batchVars,
               pagingVars, tiesVars, opsVars>>

\* A run that stores the object id it loaded last and leaves the offset as
\* it was.
RunOffsetLoaderKeepingOffset ==
    LET settings == ParseSettings(get_setting(of_wf, OffsetWfKey(of_kind)),
                                  DefaultOffsetSettings)
        queue    == list_couriers(SortedIds(of_source), settings, HttpPageSize, of_limit)
    IN  /\ of_last' = [before |-> settings.offset, written |-> Len(queue)]
        /\ IF queue = <<>>
           THEN UNCHANGED <<of_staged, of_wf>>
           ELSE /\ of_staged' = of_staged \cup {queue[k] : k \in 1..Len(queue)}
                /\ of_wf' = save_setting(of_wf, OffsetWfKey(of_kind),
                                         [last_loaded_oid |-> MaxOid(queue),
                                          offset |-> settings.offset])
        /\ UNCHANGED <<notOffset, of_kind, of_limit, of_source>>

\* CouriersLoader.run / RestaurantsLoader.run of stg_3, a run that commits:
\* get_setting, list_couriers, return on an empty queue, insert_courier for
\* each record, save_setting with offset + len(load_queue).
RunOffsetLoader ==
    LET settings == ParseSettings(get_setting(of_wf, OffsetWfKey(of_kind)),
                                  DefaultOffsetSettings)
        queue    == list_couriers(SortedIds(of_source), settings, HttpPageSize, of_limit)
    IN  /\ of_last' = [before |-> settings.offset, written |-> Len(queue)]
        /\ IF queue = <<>>
           THEN UNCHANGED <<of_staged, of_wf>>
           ELSE /\ of_staged' = of_staged \cup {queue[k] : k \in 1..Len(queue)}
                /\ of_wf' = save_setting(of_wf, OffsetWfKey(of_kind),
                                         [last_loaded_oid |-> MaxOid(queue),
                                          offset |-> settings.offset + Len(queue)])
        /\ UNCHANGED <<notOffset, of_kind, of_limit, of_source>>

\* Between two runs the delivery system gets one more courier or
\* restaurant, with whatever id.
AddToEndpoint(id) ==
    /\ id \notin of_source
    /\ of_source' = of_source \cup {id}
    /\ UNCHANGED <<notOffset, of_kind, of_limit, of_staged, of_wf, of_last>>

\* An endpoint with some records, nothing staged, no offset stored.
InitOffset ==
    /\ stg_orders = <<>>
    /\ batch_limit = BatchLimit
    /\ dm_users = {}
    /\ dm_restaurants = {}
    /\ dm_timestamps = {}
    /\ InitLoader
    /\ InitNoSave
    /\ fct_product_sales = <<>>
    /\ InitNoConc
    /\ InitNoConn
    /\ InitNoDrain
    /\ InitNoBatch
    /\ InitScd
    /\ InitStaging
    /\ InitNoCall
    /\ InitNoPaging
    /\ InitNoTies
    /\ of_kind \in {"couriers", "restaurants"}
    /\ of_limit \in 1..MaxLimit
    /\ of_source \in SUBSET (1..EndpointIds)
    /\ of_staged = {}
    /\ of_wf = <<>>
    /\ of_last = [before |-> 0, written |-> 0]
    /\ InitNoOps

NextOffset ==
    \/ RunOffsetLoader
    \/ \E id \in 1..EndpointIds : AddToEndpoint(id)

\* The scheduler keeps running the loader.
SpecOffset ==
    /\ InitOffset
    /\ [][NextOffset]_vars
    /\ WF_vars(RunOffsetLoader)

\* ------------------- loader runs from an empty checkpoint store (events, couriers)
EventsWfKey == "bonussystem_events_origin_to_stg_workflow"
CouriersWfKey == "couriers_stg_to_dds_workflow"

\* CourierSettings.last_loaded_id: default=-1
CourierIdDefault == -1

\* if not wf_setting.workflow_settings:
\*     wf_setting.workflow_settings['event_ts'] = start_date
\* event_settings = EventSettings(**wf_setting.workflow_settings)
LoadEventSettings(json, start_date) ==
    ParseSettings(json, [last_loaded_ts |-> start_date,
                         last_loaded_id |-> EventIdDefault])

\* EventObj.__lt__: self.id < other.id
EventLt(a, b) == a.id < b.id

\* max(load_queue) of events and of couriers, both compared by id.
RECURSIVE MaxByIdFrom(_, _, _)
MaxByIdFrom(queue, i, best) ==
    IF i > Len(queue) THEN best
    ELSE MaxByIdFrom(queue, i + 1, IF EventLt(best, queue[i]) THEN queue[i] ELSE best)

max_by_id(queue) == MaxByIdFrom(queue, 2, queue[1])

\* A CourierSettings whose default threshold is the first id.
CourierSettingsFromOne == [last_loaded_id |-> 1]

\* CourierSettings(): the field defaults.
DefaultCourierSettings == [last_loaded_id |-> CourierIdDefault]

\* dds list_couriers: SELECT id, object_id, name FROM stg.deliverysystem_couriers
\* WHERE id > %(id_threshold)s ORDER BY id LIMIT %(limit)s
dds_list_couriers(couriers, settings, limit) ==
    SqlLimit(OrderBy({[k   |-> <<id>>,
                       row |-> [id |-> id, object_id |-> couriers[id]]] :
                      id \in {i \in DOMAIN couriers : i > settings.last_loaded_id}}),
             limit)

\* EventsLoader.run(start_date), from the with-statement to the commit.
RunEvents(start_date) ==
    /\ rd_kind = "events"
    /\ LET event_settings ==
               LoadEventSettings(get_setting(srv_wf_settings, EventsWfKey), start_date)
           queue == list_events(rd_source, event_settings, rd_limit)
       IN  /\ rd_settings' = event_settings
           /\ rd_batch' = queue
           /\ IF queue = <<>>
              THEN UNCHANGED <<srv_wf_settings, rd_dest>>
              ELSE /\ rd_dest' = rd_dest \cup {queue[i].id : i \in 1..Len(queue)}
                   /\ srv_wf_settings' =
                          save_setting(srv_wf_settings, EventsWfKey,
                                       [last_loaded_ts |-> max_by_id(queue).event_ts,
                                        last_loaded_id |-> max_by_id(queue).id])
    /\ rd_done' = TRUE
    /\ UNCHANGED <<ordersButSettings, scdVars, stagingVars, auxVars, rd_kind, rd_source,
                   rd_limit, rd_page_size>>

\* CouriersLoader.run() of the dds layer, from the with-statement to the commit.
RunCouriers ==
    /\ rd_kind = "couriers"
    /\ LET courier_settings ==
               ParseSettings(get_setting(srv_wf_settings, CouriersWfKey),
                             DefaultCourierSettings)
           queue == dds_list_couriers(rd_source, courier_settings, rd_limit)
       IN  /\ rd_settings' = courier_settings
           /\ rd_batch' = queue
           /\ IF queue = <<>>
              THEN UNCHANGED <<srv_wf_settings, rd_dest>>
              ELSE /\ rd_dest' = rd_dest \cup {queue[i].id : i \in 1..Len(queue)}
                   /\ srv_wf_settings' =
                          save_setting(srv_wf_settings, CouriersWfKey,
                                       [last_loaded_id |-> max_by_id(queue).id])
    /\ rd_done' = TRUE
    /\ UNCHANGED <<ordersButSettings, scdVars, stagingVars, auxVars, rd_kind, rd_source,
                   rd_limit, rd_page_size>>

\* No watermark row is stored; the outbox holds events, or
\* stg.deliverysystem_couriers holds the couriers 1..m.
InitFirst ==
    /\ stg_orders = <<>>
    /\ batch_limit = BatchLimit
    /\ dm_users = {}
    /\ dm_restaurants = {}
    /\ dm_timestamps = {}
    /\ InitLoader
    /\ InitAux
    /\ InitScd
    /\ InitStaging
    /\ rd_settings = <<>>
    /\ rd_batch = <<>>
    /\ rd_done = FALSE
    /\ rd_page_size = 0
    /\ rd_dest = {}
    /\ rd_limit \in 1..MaxLimit
    /\ \/ /\ rd_kind = "events"
          /\ rd_source \in [1..NRecords -> Ticks]
       \/ /\ rd_kind = "couriers"
          /\ \E m \in 0..NRecords : rd_source = [i \in 1..m |-> i]

NextFirst ==
    \/ \E start_date \in StoredDatetimes : RunEvents(start_date)
    \/ RunCouriers

SpecFirst == InitFirst /\ [][NextFirst]_vars

\* ------------- the loaders that take start_date (events, stg_2 orders, stg_3 deliveries)
StartKinds == {"events", "orders", "deliveries"}

\* EventsLoader.WF_KEY, OrdersLoader.WF_KEY (stg_2), DeliveriesLoader.WF_KEY (stg_3)
StartWfKey(kind) ==
    CASE kind = "events"     -> EventsWfKey
      [] kind = "orders"     -> "ordersystem_orders_origin_to_stg_workflow"
      [] kind = "deliveries" -> "deliverysystem_deliveries_origin_to_stg_workflow"

\* A threshold that is the start_date of the invocation whatever is stored.
StartThresholdAlways(json, start_date) == start_date

\* if not wf_setting.workflow_settings:
\*     wf_setting.workflow_settings['event_ts'] = start_date
\* and then the last_loaded_ts of <Settings>(**wf_setting.workflow_settings).
StartThreshold(json, start_date) ==
    IF json = EmptySettings THEN start_date ELSE ParseDatetime(json.last_loaded_ts)

\* EventSettings / OrderSettings / DeliverySettings (**workflow_settings)
LoadStartSettings(kind, json, start_date) ==
    IF kind = "events"
    THEN [last_loaded_ts |-> StartThreshold(json, start_date),
          last_loaded_id |-> IF json = EmptySettings THEN EventIdDefault
                             ELSE json.last_loaded_id]
    ELSE [last_loaded_ts  |-> StartThreshold(json, start_date),
          last_loaded_oid |-> IF json = EmptySettings THEN ObjectIdZero
                              ELSE json.last_loaded_oid]

\* GET /deliveries?sort_field=date&sort_direction=asc&from=<last_loaded_ts
\* formatted to the second>: the deliveries from that second on, by date.
ServedDeliveries(deliveries, settings) ==
    OrderBy({[k |-> <<deliveries[id], id>>, row |-> id] :
             id \in {i \in DOMAIN deliveries :
                        deliveries[i] >= ParseDatetime(Strftime(settings.last_loaded_ts))}})

\* list_events / list_orders / list_deliveries, the records as (id, ts).
start_list(kind, source, settings, limit) ==
    CASE kind = "events" ->
             LET q == list_events(source, settings, limit)
             IN  [i \in 1..Len(q) |-> [id |-> q[i].id, ts |-> q[i].event_ts]]
      [] kind = "orders" ->
             LET q == mongo_list_orders(source, settings, limit)
             IN  [i \in 1..Len(q) |-> [id |-> q[i].object_id, ts |-> q[i].update_ts]]
      [] kind = "deliveries" ->
             LET q == list_deliveries(ServedDeliveries(source, settings), HttpPageSize, limit)
             IN  [i \in 1..Len(q) |-> [id |-> q[i], ts |-> source[q[i]]]]

\* max(load_queue): EventObj compares id, OrderObj and DeliveryObj compare
\* (timestamp, id).
start_max(kind, queue) ==
    CHOOSE r \in {queue[i] : i \in 1..Len(queue)} :
        \A i \in 1..Len(queue) :
            IF kind = "events" THEN queue[i].id <= r.id
            ELSE ~TupleLt(<<r.ts, r.id>>, <<queue[i].ts, queue[i].id>>)

\* <Settings>(**max(load_queue).dict())
StartSettingsOf(kind, record) ==
    IF kind = "events" THEN [last_loaded_ts |-> record.ts, last_loaded_id |-> record.id]
    ELSE [last_loaded_ts |-> record.ts, last_loaded_oid |-> record.id]

\* The batch run(start_date) reads from the stored settings.
StartBatch(start_date) ==
    start_list(rd_kind, rd_source,
               LoadStartSettings(rd_kind,
                                 get_setting(srv_wf_settings, StartWfKey(rd_kind)),
                                 start_date),
               rd_limit)

\* The settings table run(start_date) leaves behind.
StartSaved(start_date) ==
    IF StartBatch(start_date) = <<>> THEN srv_wf_settings
    ELSE save_setting(srv_wf_settings, StartWfKey(rd_kind),
                      StartSettingsOf(rd_kind, start_max(rd_kind, StartBatch(start_date))))

\* run(start_date) of the three loaders, from the with-statement to the commit.
RunFrom(start_date) ==
    /\ rd_settings' = LoadStartSettings(rd_kind,
                                        get_setting(srv_wf_settings, StartWfKey(rd_kind)),
                                        start_date)
    /\ rd_batch' = StartBatch(start_date)
    /\ rd_dest' = rd_dest \cup {StartBatch(start_date)[i].id :
                                   i \in 1..Len(StartBatch(start_date))}
    /\ srv_wf_settings' = StartSaved(start_date)
    /\ rd_done' = TRUE
    /\ UNCHANGED <<ordersButSettings, scdVars, stagingVars, auxVars, rd_kind, rd_source,
                   rd_limit, rd_page_size>>

\* No watermark row is stored; the source holds NRecords records.
InitStart ==
    /\ stg_orders = <<>>
    /\ batch_limit = BatchLimit
    /\ dm_users = {}
    /\ dm_restaurants = {}
    /\ dm_timestamps = {}
    /\ InitLoader
    /\ InitAux
    /\ InitScd
    /\ InitStaging
    /\ rd_settings = <<>>
    /\ rd_batch = <<>>
    /\ rd_done = FALSE
    /\ rd_page_size = 0
    /\ rd_dest = {}
    /\ rd_limit \in 1..MaxLimit
    /\ rd_kind \in StartKinds
    /\ rd_source \in [1..NRecords -> Ticks]

NextStart ==
    \/ \E start_date \in StoredDatetimes : RunFrom(start_date)

SpecStart == InitStart /\ [][NextStart]_vars

\* --------------------------------------- save_setting calls on one table
\* The pipeline keys of the dds schema's srv_wf_settings that are saved here.
StoreKeys == {OrdersWfKey, CouriersWfKey}

\* The settings objects handed to save_setting: CourierSettings, OrderSettings.
StoreSettings ==
    [last_loaded_id : 1..MaxLimit]
    \cup [last_loaded_ts : Ticks, last_loaded_oid : 1..MaxLimit]

\* self.settings_repository.save_setting(target, wf_key, settings), committed.
SaveAny(wf_key, settings) ==
    /\ srv_wf_settings' = save_setting(srv_wf_settings, wf_key, settings)
    /\ st_key' = wf_key
    /\ st_settings' = settings
    /\ st_before' = srv_wf_settings
    /\ UNCHANGED <<ordersButSettings, scdVars, stagingVars, readerVars,
                   fct_product_sales, concVars, connVars, drainVars, batchVars,
                   extVars>>

InitStore ==
    /\ stg_orders = <<>>
    /\ batch_limit = BatchLimit
    /\ dm_users = {}
    /\ dm_restaurants = {}
    /\ dm_timestamps = {}
    /\ InitLoader
    /\ InitAux
    /\ InitScd
    /\ InitStaging
    /\ InitNoCall

NextStore ==
    \E wf_key \in StoreKeys, settings \in StoreSettings : SaveAny(wf_key, settings)

SpecStore == InitStore /\ [][NextStore]_vars

\* ------------------------------ writers applied to their tables on their own
\* INSERT INTO dds.fct_product_sales(product_id, order_id, count, price,
\* total_sum, bonus_payment, bonus_grant) ... ON CONFLICT (product_id, order_id)
\* DO NOTHING
insert_sale(table, product_sale) ==
    LET key == <<product_sale.product_fk, product_sale.order_fk>>
    IN  IF key \in DOMAIN table THEN table
        ELSE [k \in DOMAIN table \cup {key} |->
                 IF k = key
                 THEN [count         |-> product_sale.quantity,
                       price         |-> product_sale.price,
                       total_sum     |-> product_sale.quantity * product_sale.price,
                       bonus_payment |-> product_sale.bonus_payment,
                       bonus_grant   |-> product_sale.bonus_grant]
                 ELSE table[k]]

\* The OrderObj records a batch can hold: every reference resolved.
OrderRecords ==
    [object_id : 1..MaxLimit, update_ts : {1}, final_status : {"CLOSED", "CANCELLED"},
     user_fk : {1}, restaurant_fk : {1}, timestamp_fk : {1}]

\* The ProductSaleObj records a batch can hold.
SaleRecords ==
    [product_id : {1}, price : {1}, quantity : 1..MaxLimit, bonus_payment : {0},
     bonus_grant : {0}, event_ts : {1}, order_fk : 1..MaxLimit, product_fk : {1}]

\* The ProductObj records insert_product can be handed next for product 1.
ProductRecords ==
    {[product_id |-> 1, restaurant_id |-> 1, name |-> name, price |-> 1,
      update_ts |-> ts, restaurant_fk |-> 1] :
        <<name, ts>> \in {q \in Names \X Ticks : NextVersion(product_log, q[1], q[2])}}

\* One insert_order call.
WriteOrder(order) ==
    /\ dm_orders' = insert_order(dm_orders, order)
    /\ UNCHANGED <<envVars, srv_wf_settings, txVars, pc, runVars, startVars, endVars,
                   commitVars, scdVars, stagingVars, readerVars, auxVars>>

\* One insert_sale call.
WriteSale(product_sale) ==
    /\ fct_product_sales' = insert_sale(fct_product_sales, product_sale)
    /\ UNCHANGED <<ordersVars, scdVars, stagingVars, readerVars, storeVars, concVars,
                   connVars, drainVars, batchVars, extVars>>

NextWriters ==
    \/ \E order \in OrderRecords : WriteOrder(order)
    \/ \E product_sale \in SaleRecords : WriteSale(product_sale)
    \/ \E name \in Names, ts \in Ticks : WriteProduct(name, ts)

SpecWriters == InitVersions /\ [][NextWriters]_vars

\* ------------------------------------ overlapping invocations (two slots)
UsersWfKey == "users_stg_to_dds_workflow"

\* A WF_KEY that every loader shares.
SharedWfKey(kind) == OrdersWfKey

\* WF_KEY of OrdersLoader, UsersLoader, CouriersLoader (dds).
PipelineWfKey(kind) ==
    CASE kind = "orders"   -> OrdersWfKey
      [] kind = "users"    -> UsersWfKey
      [] kind = "couriers" -> CouriersWfKey

\* UserSettings(): the field defaults.
DefaultUserSettings ==
    [last_loaded_ts |-> DatetimeMin, last_loaded_oid |-> ObjectIdZero]

\* WHERE ou.update_ts > ts_threshold OR
\*       (ou.update_ts = ts_threshold AND ou.object_id > oid_threshold)
UsersWhere(ou, oid, settings) ==
    \/ ou[oid].update_ts > settings.last_loaded_ts
    \/ /\ ou[oid].update_ts = settings.last_loaded_ts
       /\ oid > settings.last_loaded_oid

\* list_users: SELECT bu.order_user_id, ..., ou.update_ts
\* FROM stg.ordersystem_users ou LEFT JOIN stg.bonussystem_users bu ON ...
\* WHERE ... ORDER BY ou.update_ts, ou.object_id LIMIT n, then cut at the
\* first row without order_user_id.
list_users(ou, bu, settings, limit) ==
    TruncateAtNoObjectId(
        SqlLimit(OrderBy({[k   |-> <<ou[oid].update_ts, oid>>,
                           row |-> [object_id |-> IF oid \in bu THEN oid ELSE Null,
                                    update_ts |-> ou[oid].update_ts]] :
                          oid \in {o \in DOMAIN ou : UsersWhere(ou, o, settings)}}),
                 limit),
        1)

\* wf_setting = get_setting(target, WF_KEY); <Settings>(**workflow_settings)
LoadSettings(kind, table) ==
    ParseSettings(get_setting(table, PipelineWfKey(kind)),
                  CASE kind = "orders"   -> DefaultOrderSettings
                    [] kind = "users"    -> DefaultUserSettings
                    [] kind = "couriers" -> DefaultCourierSettings)

\* load_queue = self.workflow.list_<records>(source, settings, BATCH_LIMIT)
ListBatch(kind, settings) ==
    CASE kind = "orders"   -> list_orders(settings, batch_limit)
      [] kind = "users"    -> list_users(ou_users, bu_users, settings, batch_limit)
      [] kind = "couriers" -> dds_list_couriers(cc_couriers, settings, batch_limit)

\* <Settings>(**max(load_queue).dict()); UserObj compares as OrderObj does,
\* by (update_ts, object_id), CourierObj by id.
ProgressOf(kind, queue) ==
    CASE kind = "orders"   -> SettingsOf(max(queue))
      [] kind = "users"    -> SettingsOf(max(queue))
      [] kind = "couriers" -> [last_loaded_id |-> max_by_id(queue).id]

\* The conflict keys of the rows the insert loop upserts.
WrittenKeys(queue) == {queue[i].object_id : i \in 1..Len(queue)}

\* What a step of a slot leaves alone besides the other slots' fields.
notConc == <<scdVars, stagingVars, readerVars, storeVars, fct_product_sales,
             connVars, drainVars, batchVars, extVars>>

\* with ... as source, ... as target: get_setting, <Settings>(**...).  The
\* scheduler starts an invocation only while fewer than max_active_runs run.
ConcOpen(p) ==
    /\ cc_pc[p] = "idle"
    /\ Cardinality({q \in Slots : cc_pc[q] \notin {"idle", "done", "failed"}})
           < cc_max_active
    /\ cc_settings' = [cc_settings EXCEPT ![p] = LoadSettings(cc_kind[p], srv_wf_settings)]
    /\ cc_pc' = [cc_pc EXCEPT ![p] = "list"]
    /\ UNCHANGED <<ordersVars, notConc, cc_kind, cc_queue, cc_written, cc_tx_setting,
                   cc_dest, ou_users, bu_users, cc_couriers, cc_max_active, cc_before,
                   cc_last>>

\* The read of the batch, on what is committed when it runs.
ConcList(p) ==
    /\ cc_pc[p] = "list"
    /\ cc_queue' = [cc_queue EXCEPT ![p] = ListBatch(cc_kind[p], cc_settings[p])]
    /\ cc_pc' = [cc_pc EXCEPT ![p] = "insert"]
    /\ UNCHANGED <<ordersVars, notConc, cc_kind, cc_settings, cc_written, cc_tx_setting,
                   cc_dest, ou_users, bu_users, cc_couriers, cc_max_active, cc_before,
                   cc_last>>

\* if not load_queue: return -- commit of an empty transaction.
ConcQuitEmpty(p) ==
    /\ cc_pc[p] = "insert"
    /\ cc_queue[p] = <<>>
    /\ cc_pc' = [cc_pc EXCEPT ![p] = "done"]
    /\ UNCHANGED <<ordersVars, notConc, cc_kind, cc_settings, cc_queue, cc_written,
                   cc_tx_setting, cc_dest, ou_users, bu_users, cc_couriers,
                   cc_max_active, cc_before, cc_last>>

\* The insert loop.  An upsert of a row another open transaction has
\* written waits for that transaction to end.
ConcInsert(p) ==
    /\ cc_pc[p] = "insert"
    /\ cc_queue[p] # <<>>
    /\ \A q \in Slots \ {p} :
           cc_kind[q] = cc_kind[p] => cc_written[q] \cap WrittenKeys(cc_queue[p]) = {}
    /\ cc_written' = [cc_written EXCEPT ![p] = WrittenKeys(cc_queue[p])]
    /\ cc_pc' = [cc_pc EXCEPT ![p] = "save"]
    /\ UNCHANGED <<ordersVars, notConc, cc_kind, cc_settings, cc_queue, cc_tx_setting,
                   cc_dest, ou_users, bu_users, cc_couriers, cc_max_active, cc_before,
                   cc_last>>

\* save_setting inside the open transaction.  The upsert of a watermark
\* row another open transaction has written waits for it to end.
ConcSave(p) ==
    /\ cc_pc[p] = "save"
    /\ \A q \in Slots \ {p} :
           ~(/\ cc_pc[q] = "commit"
             /\ PipelineWfKey(cc_kind[q]) = PipelineWfKey(cc_kind[p]))
    /\ cc_tx_setting' = [cc_tx_setting EXCEPT
                             ![p] = ProgressOf(cc_kind[p], cc_queue[p])]
    /\ cc_pc' = [cc_pc EXCEPT ![p] = "commit"]
    /\ UNCHANGED <<ordersVars, notConc, cc_kind, cc_settings, cc_queue, cc_written,
                   cc_dest, ou_users, bu_users, cc_couriers, cc_max_active, cc_before,
                   cc_last>>

\* The with-block ends: conn.commit() makes the rows and the watermark row
\* of the transaction visible.
ConcCommit(p) ==
    /\ cc_pc[p] = "commit"
    /\ srv_wf_settings' = save_setting(srv_wf_settings, PipelineWfKey(cc_kind[p]),
                                       cc_tx_setting[p])
    /\ cc_dest' = [cc_dest EXCEPT ![cc_kind[p]] = @ \cup cc_written[p]]
    /\ cc_written' = [cc_written EXCEPT ![p] = {}]
    /\ cc_before' = srv_wf_settings
    /\ cc_last' = p
    /\ cc_pc' = [cc_pc EXCEPT ![p] = "done"]
    /\ UNCHANGED <<ordersButSettings, notConc, cc_kind, cc_settings, cc_queue,
                   cc_tx_setting, ou_users, bu_users, cc_couriers, cc_max_active>>

\* An exception inside the with-block: conn.rollback().
ConcRollback(p) ==
    /\ cc_pc[p] \in {"list", "insert", "save", "commit"}
    /\ cc_written' = [cc_written EXCEPT ![p] = {}]
    /\ cc_tx_setting' = [cc_tx_setting EXCEPT ![p] = NoSetting]
    /\ cc_pc' = [cc_pc EXCEPT ![p] = "failed"]
    /\ UNCHANGED <<ordersVars, notConc, cc_kind, cc_settings, cc_queue, cc_dest,
                   ou_users, bu_users, cc_couriers, cc_max_active, cc_before, cc_last>>

\* The stg layer stages one more order while the orders pipeline is used.
StageOrder(ts) ==
    /\ \E p \in Slots : cc_kind[p] = "orders"
    /\ Len(stg_orders) < NOrders
    /\ stg_orders' = Append(stg_orders, StagedRow(Len(stg_orders) + 1, ts))
    /\ UNCHANGED <<dm_users, dm_restaurants, dm_timestamps, batch_limit, dbVars,
                   txVars, pc, runVars, startVars, endVars, commitVars, notConc,
                   concVars>>

\* Two invocations of the orders loader, or one of the users loader and
\* one of the couriers loader; every reference of an order resolves.
InitConc ==
    /\ batch_limit = BatchLimit
    /\ dm_users = Orders
    /\ dm_restaurants = {1}
    /\ dm_timestamps = {1}
    /\ InitLoader
    /\ InitNoSave
    /\ fct_product_sales = <<>>
    /\ InitScd
    /\ InitStaging
    /\ InitNoCall
    /\ InitSlots
    /\ InitNoConn
    /\ InitNoDrain
    /\ InitNoBatch
    /\ InitNoExt
    /\ cc_max_active \in {1, 2}
    /\ \/ /\ cc_kind = [p \in Slots |-> "orders"]
          /\ \E n \in 0..NOrders : \E ts \in [1..n -> Ticks] :
                 stg_orders = [o \in 1..n |-> StagedRow(o, ts[o])]
          /\ ou_users = <<>>
          /\ bu_users = {}
          /\ cc_couriers = <<>>
       \/ /\ cc_kind = [p \in Slots |-> IF p = 1 THEN "users" ELSE "couriers"]
          /\ stg_orders = <<>>
          /\ \E n \in 0..MaxLimit : \E ts \in [1..n -> Ticks] :
                 /\ ou_users = [o \in 1..n |-> [update_ts |-> ts[o]]]
                 /\ bu_users \in SUBSET (1..n)
          /\ \E n \in 0..MaxLimit : cc_couriers = [i \in 1..n |-> i]

NextConc ==
    \/ \E p \in Slots : ConcOpen(p)
    \/ \E p \in Slots : ConcList(p)
    \/ \E p \in Slots : ConcQuitEmpty(p)
    \/ \E p \in Slots : ConcInsert(p)
    \/ \E p \in Slots : ConcSave(p)
    \/ \E p \in Slots : ConcCommit(p)
    \/ \E p \in Slots : ConcRollback(p)
    \/ \E ts \in Ticks : StageOrder(ts)

SpecConc == InitConc /\ [][NextConc]_vars

\* ------------------------------------- drain-loop loaders (cdm layer)
SettlementWfKey == "settlement_report_dds_to_cdm_workflow"
LedgerWfKey == "courier_ledger_dds_to_cdm_workflow"

\* RestaurantReportSettings.last_loaded_date: default=date.min
DateMin == 0

\* CourierReportSettings: default=datetime.min.year, datetime.min.month
YearMin == 1
MonthMin == 1

\* The (date,) keys of the settlement aggregates and the (year, month) keys
\* of the ledger aggregates; an aggregate row is [id, key], id being the
\* restaurant or the courier of the group.
SettlementKeys == {<<d>> : d \in 1..DrainDays}
LedgerKeys == {<<2022, 1>>, <<2022, 12>>, <<2023, 1>>, <<2023, 12>>}
DrainKeys(kind) == IF kind = "settlement" THEN SettlementKeys ELSE LedgerKeys
DrainRow(kind) == [id : {1, 2}, key : DrainKeys(kind)]

\* The dds layer produces one aggregate row more than a page holds.
DrainRows == DrainLimit + 1

DrainWfKey(kind) == IF kind = "settlement" THEN SettlementWfKey ELSE LedgerWfKey

\* RestaurantReportSettings() / CourierReportSettings(): the field defaults.
DefaultDrainSettings(kind) ==
    IF kind = "settlement"
    THEN [last_loaded_date |-> DateMin]
    ELSE [last_loaded_year |-> YearMin, last_loaded_month |-> MonthMin]

\* <Settings>(**last_loaded_report.dict()): the aliased fields of the record.
DrainSettingsOf(kind, key) ==
    IF kind = "settlement"
    THEN [last_loaded_date |-> key[1]]
    ELSE [last_loaded_year |-> key[1], last_loaded_month |-> key[2]]

\* A WHERE that compares (year, month) as a pair.
LedgerWhereLexicographic(key, settings) ==
    \/ key[1] > settings.last_loaded_year
    \/ key[1] = settings.last_loaded_year /\ key[2] >= settings.last_loaded_month

\* WHERE dt.year >= %(year_threshold)s AND dt.month >= %(month_threshold)s
LedgerWhere(key, settings) ==
    /\ key[1] >= settings.last_loaded_year
    /\ key[2] >= settings.last_loaded_month

\* WHERE ... dt.date >= %(date_threshold)s
SettlementWhere(key, settings) == key[1] >= settings.last_loaded_date

DrainWhere(kind, key, settings) ==
    IF kind = "settlement" THEN SettlementWhere(key, settings)
    ELSE LedgerWhere(key, settings)

\* ORDER BY dt.date / ORDER BY dt.year, dt.month: every arrangement of the
\* rows that is ascending in the ORDER BY columns; rows that agree on them
\* come in an order the query does not fix.
Arrangements(rows) ==
    {s \in [1..Cardinality(rows) -> rows] :
        /\ \A i, j \in DOMAIN s : i # j => s[i] # s[j]
        /\ \A i, j \in DOMAIN s : i < j => ~TupleLt(s[j].key, s[i].key)}

\* OFFSET %(offset)s LIMIT %(limit)s
OffsetLimit(rows, offset, limit) ==
    SubSeq(rows, offset + 1, Min(offset + limit, Len(rows)))

\* list_reports: the pages the query can return for an offset and a limit.
list_reports(kind, source, settings, offset, limit) ==
    {OffsetLimit(s, offset, limit) :
        s \in Arrangements({r \in source : DrainWhere(kind, r.key, settings)})}

\* The key of the first record of the batch.
first_key(queue) == queue[1].key

\* RestaurantReportObj.__lt__ / CourierReportObj.__lt__: by date, by
\* (year, month); max(load_queue) is used through these fields only.
max_key(queue) ==
    CHOOSE k \in {queue[i].key : i \in 1..Len(queue)} :
        \A i \in 1..Len(queue) : ~TupleLt(k, queue[i].key)

\* No record kept: last_loaded_report = None.
NoReport == <<>>

drainRun == <<dr_settings, dr_offset, dr_queue, dr_last, dr_log, dr_written>>
drainTx == <<dr_tx_table, dr_tx_wf>>

\* What a step of a drain-loop loader leaves alone.
notDrain == <<ordersButSettings, scdVars, stagingVars, readerVars, storeVars,
              fct_product_sales, concVars, connVars, batchVars, extVars, dr_kind>>

\* with ...: get_setting, <Settings>(**...), offset = 0,
\* last_loaded_report = None
DrainOpen ==
    /\ dr_pc \in {"idle", "done", "failed"}
    /\ dr_settings' = ParseSettings(get_setting(srv_wf_settings, DrainWfKey(dr_kind)),
                                    DefaultDrainSettings(dr_kind))
    /\ dr_offset' = 0
    /\ dr_last' = NoReport
    /\ dr_queue' = <<>>
    /\ dr_log' = <<>>
    /\ dr_written' = {}
    /\ dr_tx_table' = dr_table
    /\ dr_tx_wf' = srv_wf_settings
    /\ dr_pc' = "read"
    /\ UNCHANGED <<notDrain, srv_wf_settings, dr_source, dr_table>>

\* load_queue = self.workflow.list_reports(source, report_settings, offset,
\* BATCH_LIMIT); if not load_queue: break
DrainRead ==
    /\ dr_pc = "read"
    /\ \E page \in list_reports(dr_kind, dr_source, dr_settings, dr_offset, DrainLimit) :
           /\ dr_queue' = page
           /\ dr_log' = Append(dr_log, [op |-> "read", offset |-> dr_offset,
                                        n |-> Len(page)])
           /\ dr_pc' = IF page = <<>> THEN "after_loop" ELSE "write"
    /\ UNCHANGED <<notDrain, srv_wf_settings, dr_source, dr_table, drainTx,
                   dr_settings, dr_offset, dr_last, dr_written>>

\* A loop body that keeps the offset where it was.
DrainWriteKeepingOffset ==
    /\ dr_pc = "write"
    /\ dr_tx_table' = dr_tx_table \cup {dr_queue[i] : i \in 1..Len(dr_queue)}
    /\ dr_written' = dr_written \cup {dr_queue[i] : i \in 1..Len(dr_queue)}
    /\ dr_offset' = dr_offset
    /\ dr_last' = max_key(dr_queue)
    /\ dr_log' = Append(dr_log, [op |-> "write", offset |-> dr_offset,
                                 n |-> Len(dr_queue)])
    /\ dr_pc' = IF Len(dr_log) < 2 * DrainRows THEN "read" ELSE "after_loop"
    /\ UNCHANGED <<notDrain, srv_wf_settings, dr_source, dr_table, dr_tx_wf,
                   dr_settings, dr_queue>>

\* for report in load_queue: insert_report(target, report);
\* offset += len(load_queue); last_loaded_report = max(load_queue)
DrainWrite ==
    /\ dr_pc = "write"
    /\ dr_tx_table' = dr_tx_table \cup {dr_queue[i] : i \in 1..Len(dr_queue)}
    /\ dr_written' = dr_written \cup {dr_queue[i] : i \in 1..Len(dr_queue)}
    /\ dr_offset' = dr_offset + Len(dr_queue)
    /\ dr_last' = max_key(dr_queue)
    /\ dr_log' = Append(dr_log, [op |-> "write", offset |-> dr_offset,
                                 n |-> Len(dr_queue)])
    /\ dr_pc' = "read"
    /\ UNCHANGED <<notDrain, srv_wf_settings, dr_source, dr_table, dr_tx_wf,
                   dr_settings, dr_queue>>

\* An end of the loop that saves the settings whether or not a record was kept.
DrainSaveAlways ==
    /\ dr_pc = "after_loop"
    /\ dr_tx_wf' = save_setting(dr_tx_wf, DrainWfKey(dr_kind),
                                IF dr_last # NoReport
                                THEN DrainSettingsOf(dr_kind, dr_last)
                                ELSE dr_settings)
    /\ dr_log' = Append(dr_log, [op |-> "save", offset |-> dr_offset, n |-> 0])
    /\ dr_pc' = "commit"
    /\ UNCHANGED <<notDrain, srv_wf_settings, dr_source, dr_table, dr_tx_table,
                   dr_settings, dr_offset, dr_queue, dr_last, dr_written>>

\* if last_loaded_report: <Settings>(**last_loaded_report.dict());
\* save_setting(target, wf_setting.workflow_key, report_settings)
DrainSave ==
    /\ dr_pc = "after_loop"
    /\ IF dr_last # NoReport
       THEN /\ dr_tx_wf' = save_setting(dr_tx_wf, DrainWfKey(dr_kind),
                                        DrainSettingsOf(dr_kind, dr_last))
            /\ dr_log' = Append(dr_log, [op |-> "save", offset |-> dr_offset, n |-> 0])
       ELSE UNCHANGED <<dr_tx_wf, dr_log>>
    /\ dr_pc' = "commit"
    /\ UNCHANGED <<notDrain, srv_wf_settings, dr_source, dr_table, dr_tx_table,
                   dr_settings, dr_offset, dr_queue, dr_last, dr_written>>

\* The with-block ends: conn.commit().
DrainCommit ==
    /\ dr_pc = "commit"
    /\ dr_table' = dr_tx_table
    /\ srv_wf_settings' = dr_tx_wf
    /\ dr_pc' = "done"
    /\ UNCHANGED <<notDrain, dr_source, drainTx, drainRun>>

\* A read, a write or the save raises: conn.rollback().
DrainRaise ==
    /\ dr_pc \in {"read", "write", "after_loop", "commit"}
    /\ dr_tx_table' = dr_table
    /\ dr_tx_wf' = srv_wf_settings
    /\ dr_pc' = "failed"
    /\ UNCHANGED <<notDrain, srv_wf_settings, dr_source, dr_table, drainRun>>

\* Between two invocations the dds layer produces one more aggregate group.
AddAggregate(row) ==
    /\ dr_pc \in {"idle", "done", "failed"}
    /\ row \notin dr_source
    /\ Cardinality(dr_source) < DrainRows
    /\ dr_source' = dr_source \cup {row}
    /\ dr_pc' = "idle"
    /\ UNCHANGED <<notDrain, srv_wf_settings, dr_table, drainTx, drainRun>>

\* The settlement-report loader or the courier-ledger loader, nothing loaded.
InitDrain ==
    /\ stg_orders = <<>>
    /\ batch_limit = BatchLimit
    /\ dm_users = {}
    /\ dm_restaurants = {}
    /\ dm_timestamps = {}
    /\ InitLoader
    /\ InitNoSave
    /\ fct_product_sales = <<>>
    /\ InitNoConc
    /\ InitNoConn
    /\ InitScd
    /\ InitStaging
    /\ InitNoCall
    /\ InitNoBatch
    /\ InitNoExt
    /\ InitNoLoop
    /\ dr_kind \in {"settlement", "ledger"}

NextDrain ==
    \/ DrainOpen
    \/ DrainRead
    \/ DrainWrite
    \/ DrainSave
    \/ DrainCommit
    \/ DrainRaise
    \/ \E row \in DrainRow(dr_kind) : AddAggregate(row)

SpecDrain == InitDrain /\ [][NextDrain]_vars

\* An invocation that has started runs on: no statement of run waits for
\* anything but its own I/O.
SpecDrainFair ==
    /\ InitDrain
    /\ [][NextDrain]_vars
    /\ WF_vars(DrainRead)
    /\ WF_vars(DrainWrite)

\* --------------------- the product-sales loader on rows that share a key
\* The product lines of the staged events: be.event_ts, the order of the
\* event, and product_id and quantity of a line of product_payments.
SaleLines == [event_ts : Ticks, product_id : {1, 2}, quantity : {1, 2}, order : {1, 2}]

\* SELECT ..., MAX("do".id) AS order_fk, MAX(dp.id) AS product_fk ... GROUP BY
\* be.event_ts, product.product_id, product.price, product.quantity, ...: one
\* row for every group of lines, every reference resolved.
GroupedSales(lines) ==
    {[key        |-> <<l.event_ts, l.product_id>>,
      event_ts   |-> l.event_ts,
      product_id |-> l.product_id,
      quantity   |-> l.quantity,
      price      |-> 1,
      bonus_payment |-> 0,
      bonus_grant   |-> 0,
      product_fk |-> l.product_id,
      order_fk   |-> CHOOSE o \in {1, 2} :
                        /\ \E q \in lines : /\ q.event_ts = l.event_ts
                                            /\ q.product_id = l.product_id
                                            /\ q.quantity = l.quantity
                                            /\ q.order = o
                        /\ \A q \in lines : (/\ q.event_ts = l.event_ts
                                             /\ q.product_id = l.product_id
                                             /\ q.quantity = l.quantity) => q.order <= o] :
        l \in lines}

\* A filter that takes the rows at the threshold key too.
SalesWhereFromThreshold(row, settings) ==
    ~TupleLt(row.key, <<settings.last_loaded_ts, settings.last_loaded_product_id>>)

\* WHERE be.event_ts > ts OR (be.event_ts = ts AND product.product_id > oid)
SalesWhere(row, settings) ==
    TupleLt(<<settings.last_loaded_ts, settings.last_loaded_product_id>>, row.key)

\* list_sales on rows whose references are resolved: WHERE, ORDER BY
\* be.event_ts, product.product_id (rows of one key in an order the query
\* does not fix), LIMIT.  The batches the query can return.
list_sales(lines, settings, limit) ==
    {SqlLimit(s, limit) :
        s \in Arrangements({r \in GroupedSales(lines) : SalesWhere(r, settings)})}

\* for product_sale in load_queue: self.workflow.insert_sale(target, product_sale)
RECURSIVE InsertSales(_, _, _)
InsertSales(table, queue, i) ==
    IF i > Len(queue) THEN table
    ELSE InsertSales(insert_sale(table, queue[i]), queue, i + 1)

\* The settings of the sales loader.
DefaultSaleSettings ==
    [last_loaded_ts |-> DatetimeMin, last_loaded_product_id |-> ObjectIdZero]

SalesWfKey == "product_sales_stg_to_dds_workflow"

\* What a run of the sales loader leaves alone.
notTies == <<ordersVars, scdVars, stagingVars, readerVars, storeVars,
             fct_product_sales, concVars, connVars, drainVars, batchVars,
             pagingVars, offsetVars, opsVars>>

\* ProductSalesLoader.run, a run that commits: get_setting, list_sales,
\* return on an empty queue, insert_sale for each record, save_setting with
\* max(load_queue).
RunSales ==
    LET settings == ParseSettings(get_setting(ps_wf, SalesWfKey), DefaultSaleSettings)
    IN  \E queue \in list_sales(ps_lines, settings, ps_limit) :
            /\ ps_queue' = queue
            /\ IF queue = <<>>
               THEN UNCHANGED <<ps_facts, ps_written, ps_wf>>
               ELSE /\ ps_facts' = InsertSales(ps_facts, queue, 1)
                    /\ ps_written' = ps_written \cup {queue[i] : i \in 1..Len(queue)}
                    /\ LET last_loaded_sale ==
                               CHOOSE r \in {queue[i] : i \in 1..Len(queue)} :
                                   \A i \in 1..Len(queue) : ~TupleLt(r.key, queue[i].key)
                       IN  ps_wf' = save_setting(ps_wf, SalesWfKey,
                                        [last_loaded_ts |-> last_loaded_sale.event_ts,
                                         last_loaded_product_id |->
                                             last_loaded_sale.product_id])
            /\ UNCHANGED <<notTies, ps_lines, ps_limit>>

\* Up to MaxLimit product lines are staged, with every reference resolved;
\* nothing is loaded.
InitTies ==
    /\ stg_orders = <<>>
    /\ batch_limit = BatchLimit
    /\ dm_users = {}
    /\ dm_restaurants = {}
    /\ dm_timestamps = {}
    /\ InitLoader
    /\ InitNoSave
    /\ fct_product_sales = <<>>
    /\ InitNoConc
    /\ InitNoConn
    /\ InitNoDrain
    /\ InitNoBatch
    /\ InitScd
    /\ InitStaging
    /\ InitNoCall
    /\ InitNoPaging
    /\ InitNoOffset
    /\ \E n \in 0..MaxLimit : \E f \in [1..n -> SaleLines] :
           ps_lines = {f[i] : i \in 1..n}
    /\ ps_limit \in 1..MaxLimit
    /\ ps_wf = <<>>
    /\ ps_facts = <<>>
    /\ ps_written = {}
    /\ ps_queue = <<>>
    /\ InitNoOps

NextTies ==
    \/ RunSales

SpecTies == InitTies /\ [][NextTies]_vars

\* --------------------------- single-batch loaders, statement by statement
\* DeliveriesLoader (dds), UsersLoader and RestaurantsLoader (stg_2),
\* ProductSalesLoader (dds): the run methods have one shape.
BatchKinds == {"deliveries", "users", "restaurants", "sales"}

\* The loaders whose reader joins the dds dimensions and cuts at a gap.
Joined(kind) == kind \in {"deliveries", "sales"}

BatchWfKey(kind) ==
    CASE kind = "deliveries"  -> "courier_deliveries_stg_to_dds_workflow"
      [] kind = "users"       -> "ordersystem_users_origin_to_stg_workflow"
      [] kind = "restaurants" -> "ordersystem_restaurants_origin_to_stg_workflow"
      [] kind = "sales"       -> "product_sales_stg_to_dds_workflow"

\* DeliverySettings(), UserSettings(), RestaurantSettings(),
\* ProductSaleSettings(): the field defaults.
DefaultBatchSettings(kind) ==
    CASE kind = "deliveries" -> [last_loaded_id |-> CourierIdDefault]
      [] kind = "sales"      -> [last_loaded_ts |-> DatetimeMin,
                                 last_loaded_product_id |-> ObjectIdZero]
      [] OTHER               -> [last_loaded_ts |-> DatetimeMin,
                                 last_loaded_oid |-> ObjectIdZero]

\* The columns a record is ordered by: sd.id / (update_ts, _id) /
\* (be.event_ts, product.product_id).
RecordKey(kind, row) == IF kind = "deliveries" THEN <<row.id>> ELSE <<row.ts, row.id>>

\* The comparison key the loaded settings hold.
ThresholdKey(kind, settings) ==
    CASE kind = "deliveries" -> <<settings.last_loaded_id>>
      [] kind = "sales"      -> <<settings.last_loaded_ts, settings.last_loaded_product_id>>
      [] OTHER               -> <<settings.last_loaded_ts, settings.last_loaded_oid>>

\* WHERE sd.id > id / WHERE ts > t OR (ts = t AND id > oid) / the $or filter
\* of the Mongo readers: the key of the row is after the threshold.
BatchWhere(kind, row, settings) ==
    TupleLt(ThresholdKey(kind, settings), RecordKey(kind, row))

\* The row the query returns for a source record, with the two keys of
\* the LEFT JOINs: own_fk is the reference each record has for itself
\* (MAX("do".id) AS order_fk of a delivery, MAX(dp.id) AS product_fk of a
\* sale), shared_fk the one the records here have in common (the courier of
\* the deliveries, the order of the sales). The Mongo readers have no
\* reference.
BatchRowOf(kind, source, id, own_dim, shared_dim) ==
    [id |-> id, ts |-> source[id],
     own_fk    |-> IF Joined(kind) /\ id \notin own_dim THEN Null ELSE id,
     shared_fk |-> IF Joined(kind) /\ 1 \notin shared_dim THEN Null ELSE 1]

\* The query: WHERE, ORDER BY, LIMIT.
select_batch(kind, source, own_dim, shared_dim, settings, limit) ==
    SqlLimit(OrderBy({[k   |-> RecordKey(kind, r), row |-> r] :
                      r \in {q \in {BatchRowOf(kind, source, id, own_dim, shared_dim) :
                                        id \in DOMAIN source} :
                                 BatchWhere(kind, q, settings)}}),
             limit)

\* A reader that returns the rows of the query as they are.
KeepMissingFk(rows, i) == rows

\* A scan that drops the rows with a missing foreign key and keeps the rest.
DropMissingFk(rows, i) ==
    SelectSeq(rows, LAMBDA r : r.own_fk # Null /\ r.shared_fk # Null)

\* for idx, delivery in enumerate(deliveries):
\*     if not all([delivery.order_fk, delivery.courier_fk]):
\*         deliveries = deliveries[:idx]; break
RECURSIVE TruncateAtMissingFk(_, _)
TruncateAtMissingFk(rows, i) ==
    IF i > Len(rows) THEN rows
    ELSE IF rows[i].own_fk = Null \/ rows[i].shared_fk = Null
         THEN SubSeq(rows, 1, i - 1)
         ELSE TruncateAtMissingFk(rows, i + 1)

\* list_deliveries / list_users / list_restaurants / list_sales
list_batch(kind, source, own_dim, shared_dim, settings, limit) ==
    TruncateAtMissingFk(
        select_batch(kind, source, own_dim, shared_dim, settings, limit), 1)

\* max(load_queue) under the __lt__ of the record, which compares the
\* columns the reader orders by.
max_record(kind, queue) ==
    CHOOSE r \in {queue[i] : i \in 1..Len(queue)} :
        \A i \in 1..Len(queue) : ~TupleLt(RecordKey(kind, r), RecordKey(kind, queue[i]))

\* <Settings>(**max(load_queue).dict())
BatchSettingsOf(kind, row) ==
    CASE kind = "deliveries" -> [last_loaded_id |-> row.id]
      [] kind = "sales"      -> [last_loaded_ts |-> row.ts,
                                 last_loaded_product_id |-> row.id]
      [] OTHER               -> [last_loaded_ts |-> row.ts, last_loaded_oid |-> row.id]

batchRun == <<sb_settings, sb_queue, sb_fetched, sb_idx, sb_log>>
batchTx == <<sb_tx_table, sb_tx_wf>>
batchEnv == <<sb_kind, sb_source, sb_limit, sb_own_dim, sb_shared_dim>>

\* What a step of a single-batch loader leaves alone.
notBatch == <<ordersButSettings, scdVars, stagingVars, readerVars, storeVars,
              fct_product_sales, concVars, connVars, drainVars, extVars>>

\* with ...: get_setting, <Settings>(**wf_setting.workflow_settings)
BatchOpen ==
    /\ sb_pc \in {"idle", "done", "failed"}
    /\ sb_settings' = ParseSettings(get_setting(srv_wf_settings, BatchWfKey(sb_kind)),
                                    DefaultBatchSettings(sb_kind))
    /\ sb_queue' = <<>>
    /\ sb_fetched' = <<>>
    /\ sb_idx' = 1
    /\ sb_log' = <<>>
    /\ sb_tx_table' = sb_table
    /\ sb_tx_wf' = srv_wf_settings
    /\ sb_pc' = "read"
    /\ UNCHANGED <<notBatch, batchEnv, srv_wf_settings, sb_table>>

\* load_queue = self.workflow.list_<records>(source, settings, BATCH_LIMIT)
BatchRead ==
    /\ sb_pc = "read"
    /\ sb_fetched' = select_batch(sb_kind, sb_source, sb_own_dim, sb_shared_dim,
                                  sb_settings, sb_limit)
    /\ sb_queue' = list_batch(sb_kind, sb_source, sb_own_dim, sb_shared_dim,
                              sb_settings, sb_limit)
    /\ sb_idx' = 1
    /\ sb_log' = Append(sb_log, [op |-> "read", id |-> 0])
    /\ sb_pc' = "insert"
    /\ UNCHANGED <<notBatch, batchEnv, batchTx, srv_wf_settings, sb_table, sb_settings>>

\* if not load_queue: return
BatchReturnEmpty ==
    /\ sb_pc = "insert"
    /\ sb_queue = <<>>
    /\ sb_pc' = "commit"
    /\ UNCHANGED <<notBatch, batchEnv, batchTx, batchRun, srv_wf_settings, sb_table>>

\* for record in load_queue: self.workflow.insert_<record>(target, record)
BatchInsert ==
    /\ sb_pc = "insert"
    /\ sb_idx <= Len(sb_queue)
    /\ sb_tx_table' = sb_tx_table \cup {sb_queue[sb_idx].id}
    /\ sb_log' = Append(sb_log, [op |-> "write", id |-> sb_queue[sb_idx].id])
    /\ sb_idx' = sb_idx + 1
    /\ UNCHANGED <<notBatch, batchEnv, srv_wf_settings, sb_table, sb_tx_wf, sb_pc,
                   sb_settings, sb_queue, sb_fetched>>

\* A save of the watermark that does not wait for the insert loop.
BatchSaveEarly ==
    /\ sb_pc = "insert"
    /\ sb_queue # <<>>
    /\ sb_tx_wf' = save_setting(sb_tx_wf, BatchWfKey(sb_kind),
                                BatchSettingsOf(sb_kind, max_record(sb_kind, sb_queue)))
    /\ sb_log' = Append(sb_log, [op |-> "save", id |-> 0])
    /\ sb_pc' = "commit"
    /\ UNCHANGED <<notBatch, batchEnv, srv_wf_settings, sb_table, sb_tx_table,
                   sb_settings, sb_queue, sb_fetched, sb_idx>>

\* last_loaded = max(load_queue); <Settings>(**last_loaded.dict());
\* save_setting(target, wf_setting.workflow_key, settings)
BatchSave ==
    /\ sb_pc = "insert"
    /\ sb_queue # <<>>
    /\ sb_idx > Len(sb_queue)
    /\ sb_tx_wf' = save_setting(sb_tx_wf, BatchWfKey(sb_kind),
                                BatchSettingsOf(sb_kind, max_record(sb_kind, sb_queue)))
    /\ sb_log' = Append(sb_log, [op |-> "save", id |-> 0])
    /\ sb_pc' = "commit"
    /\ UNCHANGED <<notBatch, batchEnv, srv_wf_settings, sb_table, sb_tx_table,
                   sb_settings, sb_queue, sb_fetched, sb_idx>>

\* The with-block ends: conn.commit().
BatchCommit ==
    /\ sb_pc = "commit"
    /\ sb_table' = sb_tx_table
    /\ srv_wf_settings' = sb_tx_wf
    /\ sb_pc' = "done"
    /\ UNCHANGED <<notBatch, batchEnv, batchTx, batchRun>>

\* A statement of the with-block raises: conn.rollback().
BatchRaise ==
    /\ sb_pc \in {"read", "insert", "commit"}
    /\ sb_tx_table' = sb_table
    /\ sb_tx_wf' = srv_wf_settings
    /\ sb_pc' = "failed"
    /\ UNCHANGED <<notBatch, batchEnv, batchRun, srv_wf_settings, sb_table>>

\* Between two invocations the loader of the dimension adds the row one
\* record refers to (dds.dm_orders of a delivery, dds.dm_products of a sale).
ResolveOwn(o) ==
    /\ sb_pc \in {"idle", "done", "failed"}
    /\ Joined(sb_kind)
    /\ o \notin sb_own_dim
    /\ sb_own_dim' = sb_own_dim \cup {o}
    /\ sb_pc' = "idle"
    /\ UNCHANGED <<notBatch, batchTx, batchRun, srv_wf_settings, sb_table, sb_kind,
                   sb_source, sb_limit, sb_shared_dim>>

\* Between two invocations the loader of the dimension adds the row the
\* records share (dds.dm_couriers of the deliveries, dds.dm_orders of the sales).
ResolveShared ==
    /\ sb_pc \in {"idle", "done", "failed"}
    /\ Joined(sb_kind)
    /\ sb_shared_dim = {}
    /\ sb_shared_dim' = {1}
    /\ sb_pc' = "idle"
    /\ UNCHANGED <<notBatch, batchTx, batchRun, srv_wf_settings, sb_table, sb_kind,
                   sb_source, sb_limit, sb_own_dim>>

\* A static source of up to NRecords records, a batch limit, no dimension
\* row yet, nothing loaded.
InitBatch ==
    /\ stg_orders = <<>>
    /\ batch_limit = BatchLimit
    /\ dm_users = {}
    /\ dm_restaurants = {}
    /\ dm_timestamps = {}
    /\ InitLoader
    /\ InitNoSave
    /\ fct_product_sales = <<>>
    /\ InitNoConc
    /\ InitNoConn
    /\ InitNoDrain
    /\ InitScd
    /\ InitStaging
    /\ InitNoCall
    /\ InitNoExt
    /\ InitNoStep
    /\ sb_kind \in BatchKinds
    /\ sb_limit \in 1..BatchLimit
    /\ \E n \in 0..NRecords :
           sb_source \in [1..n -> IF sb_kind = "deliveries" THEN {1} ELSE Ticks]

NextBatch ==
    \/ BatchOpen
    \/ BatchRead
    \/ BatchReturnEmpty
    \/ BatchInsert
    \/ BatchSave
    \/ BatchCommit
    \/ BatchRaise
    \/ \E o \in DOMAIN sb_source : ResolveOwn(o)
    \/ ResolveShared

SpecBatch == InitBatch /\ [][NextBatch]_vars

\* Draining by re-invocation: a loader without references, a static
\* source, and invocations that run to their end one after the other.
InitRefill ==
    /\ InitBatch
    /\ ~Joined(sb_kind)

NextRefill ==
    \/ BatchOpen
    \/ BatchRead
    \/ BatchReturnEmpty
    \/ BatchInsert
    \/ BatchSave
    \/ BatchCommit

\* The scheduler keeps invoking the loader and an invocation that has
\* started runs on.
SpecRefill ==
    /\ InitRefill
    /\ [][NextRefill]_vars
    /\ WF_vars(NextRefill)

\* The three loaders that join the dds dimensions, side by side: the
\* orders loader of the first specification and the deliveries and sales
\* loaders of the single-batch one, on sources whose records carry one
\* timestamp, so that the references alone decide what is written.
InitJoined ==
    \/ /\ Init
       /\ \A o \in DOMAIN stg_orders : stg_orders[o].update_ts = 1
    \/ /\ InitBatch
       /\ Joined(sb_kind)
       /\ \A id \in DOMAIN sb_source : sb_source[id] = 1

NextJoined ==
    \/ sb_kind = "none" /\ Next
    \/ sb_kind # "none" /\ NextBatch

SpecJoined == InitJoined /\ [][NextJoined]_vars

\* ------------------------- the scoped connections of one run (lib/connect.py)
TimestampsWfKey == "timestamps_stg_to_dds_workflow"

\* The connections of the with-statement, the outer one first.
Conns == {"source", "target"}

\* OrderSettings() of the timestamps loader: the field default.
DefaultTimestampSettings == [last_loaded_ts |-> DatetimeMin]

\* list_orders of the timestamps loader: SELECT "order".date ... WHERE
\* "order".date > ts_threshold AND "order".final_status IN ('CLOSED',
\* 'CANCELLED') ORDER BY "order".date LIMIT n
ts_list_orders(staged, settings, limit) ==
    SqlLimit(OrderBy({[k   |-> <<staged[o].date, o>>,
                       row |-> [date |-> staged[o].date]] :
                      o \in {i \in DOMAIN staged :
                                 /\ staged[i].date > settings.last_loaded_ts
                                 /\ staged[i].final_status \in {"CLOSED", "CANCELLED"}}}),
             limit)

\* INSERT INTO dds.dm_timestamps(ts, ...) ... ON CONFLICT (ts) DO NOTHING
insert_order_ts(table, order_ts) == table \cup {order_ts}

\* max(load_queue) under OrderObj.__lt__ of the timestamps loader: by date.
max_by_date(queue) ==
    CHOOSE d \in {queue[i].date : i \in 1..Len(queue)} :
        \A i \in 1..Len(queue) : queue[i].date <= d

cnDb == <<cn_ts, cn_wf>>
cnTx == <<cn_tx_ts, cn_tx_wf>>
cnRun == <<cn_settings, cn_queue, cn_idx, cn_early>>
cnMgr == <<cn_conn, cn_calls, cn_left, cn_exc, cn_outcome>>

\* What a step of the run leaves alone.
notConn == <<ordersVars, scdVars, stagingVars, readerVars, storeVars,
             fct_product_sales, concVars, drainVars, batchVars, extVars,
             cn_orders>>

\* conn = self.client(), then the generator yields conn: the source
\* connection is entered first, the target connection inside it.
ConnClient(c) ==
    /\ cn_in = "run"
    /\ \/ c = "source" /\ cn_pc = "idle"
       \/ c = "target" /\ cn_pc = "enter_target"
    /\ cn_conn' = [cn_conn EXCEPT ![c] = "open"]
    /\ cn_pc' = IF c = "source" THEN "enter_target" ELSE "get_setting"
    /\ cn_tx_ts' = cn_ts
    /\ cn_tx_wf' = cn_wf
    /\ cn_start' = [ts |-> cn_ts, wf |-> cn_wf]
    /\ UNCHANGED <<notConn, cnDb, cnRun, cn_in, cn_calls, cn_left, cn_exc, cn_outcome>>

\* psycopg.connect raises: outside every try for the source, inside the
\* with-block of the source for the target.
ConnClientFails(c) ==
    /\ cn_in = "run"
    /\ \/ c = "source" /\ cn_pc = "idle"
       \/ c = "target" /\ cn_pc = "enter_target"
    /\ cn_exc' = TRUE
    /\ IF c = "source"
       THEN /\ cn_pc' = "after"
            /\ cn_outcome' = "raised"
            /\ UNCHANGED <<cn_in, cn_left>>
       ELSE /\ cn_in' = "source"
            /\ cn_pc' = "except"
            /\ cn_left' = [cn_left EXCEPT !["source"] = "exception"]
            /\ UNCHANGED cn_outcome
    /\ UNCHANGED <<notConn, cnDb, cnTx, cnRun, cn_conn, cn_calls, cn_start>>

\* wf_setting = get_setting(target, WF_KEY); OrderSettings(**...)
GetSetting ==
    /\ cn_in = "run"
    /\ cn_pc = "get_setting"
    /\ cn_settings' = ParseSettings(get_setting(cn_tx_wf, TimestampsWfKey),
                                    DefaultTimestampSettings)
    /\ cn_pc' = "list_orders"
    /\ UNCHANGED <<notConn, cnDb, cnTx, cnMgr, cn_queue, cn_idx, cn_early, cn_in,
                   cn_start>>

\* load_queue = self.workflow.list_orders(source, order_settings, BATCH_LIMIT)
ListTimestamps ==
    /\ cn_in = "run"
    /\ cn_pc = "list_orders"
    /\ cn_queue' = ts_list_orders(cn_orders, cn_settings, BatchLimit)
    /\ cn_idx' = 1
    /\ cn_pc' = "insert"
    /\ UNCHANGED <<notConn, cnDb, cnTx, cnMgr, cn_settings, cn_early, cn_in, cn_start>>

\* if not load_queue: return -- the with-block is left without an exception.
ReturnEmpty ==
    /\ cn_in = "run"
    /\ cn_pc = "insert"
    /\ cn_queue = <<>>
    /\ cn_early' = TRUE
    /\ cn_in' = "target"
    /\ cn_pc' = "commit"
    /\ cn_left' = [cn_left EXCEPT !["target"] = "clean"]
    /\ UNCHANGED <<notConn, cnDb, cnTx, cn_settings, cn_queue, cn_idx, cn_conn,
                   cn_calls, cn_exc, cn_outcome, cn_start>>

\* for order in load_queue: self.workflow.insert_order_ts(target, order.date)
InsertTimestamp ==
    /\ cn_in = "run"
    /\ cn_pc = "insert"
    /\ cn_idx <= Len(cn_queue)
    /\ cn_tx_ts' = insert_order_ts(cn_tx_ts, cn_queue[cn_idx].date)
    /\ cn_idx' = cn_idx + 1
    /\ UNCHANGED <<notConn, cnDb, cnMgr, cn_tx_wf, cn_settings, cn_queue, cn_early,
                   cn_pc, cn_in, cn_start>>

\* max(load_queue); OrderSettings(**...); save_setting(...); the end of the
\* with-block is reached.
SaveTimestampSetting ==
    /\ cn_in = "run"
    /\ cn_pc = "insert"
    /\ cn_queue # <<>>
    /\ cn_idx > Len(cn_queue)
    /\ cn_tx_wf' = save_setting(cn_tx_wf, TimestampsWfKey,
                                [last_loaded_ts |-> max_by_date(cn_queue)])
    /\ cn_in' = "target"
    /\ cn_pc' = "commit"
    /\ cn_left' = [cn_left EXCEPT !["target"] = "clean"]
    /\ UNCHANGED <<notConn, cnDb, cn_tx_ts, cnRun, cn_conn, cn_calls, cn_exc,
                   cn_outcome, cn_start>>

\* A statement of the with-block raises (psycopg.Error, ValidationError):
\* the exception is thrown into the generator of the target at its yield.
BodyRaises ==
    /\ cn_in = "run"
    /\ cn_pc \in {"get_setting", "list_orders", "insert"}
    /\ cn_exc' = TRUE
    /\ cn_in' = "target"
    /\ cn_pc' = "except"
    /\ cn_left' = [cn_left EXCEPT !["target"] = "exception"]
    /\ UNCHANGED <<notConn, cnDb, cnTx, cnRun, cn_conn, cn_calls, cn_outcome, cn_start>>

\* yield conn returned: conn.commit()
ConnCommit(c) ==
    /\ cn_in = c
    /\ cn_pc = "commit"
    /\ cn_calls' = [cn_calls EXCEPT ![c] = Append(@, "commit")]
    /\ IF c = "target"
       THEN cn_ts' = cn_tx_ts /\ cn_wf' = cn_tx_wf
       ELSE UNCHANGED cnDb
    /\ cn_pc' = "finally"
    /\ UNCHANGED <<notConn, cnTx, cnRun, cn_in, cn_conn, cn_left, cn_exc, cn_outcome,
                   cn_start>>

\* conn.commit() raises: nothing is committed, the except-branch is next.
ConnCommitRaises(c) ==
    /\ cn_in = c
    /\ cn_pc = "commit"
    /\ cn_calls' = [cn_calls EXCEPT ![c] = Append(@, "commit raised")]
    /\ cn_exc' = TRUE
    /\ cn_pc' = "except"
    /\ UNCHANGED <<notConn, cnDb, cnTx, cnRun, cn_in, cn_conn, cn_left, cn_outcome,
                   cn_start>>

\* An except-branch that only re-raises, as HttpConnect.connection has.
ConnExceptReraisesOnly(c) ==
    /\ cn_in = c
    /\ cn_pc = "except"
    /\ cn_pc' = "finally"
    /\ UNCHANGED <<notConn, cnDb, cnTx, cnRun, cn_in, cn_conn, cn_calls, cn_left,
                   cn_exc, cn_outcome, cn_start>>

\* except Exception as e: conn.rollback(); raise e
ConnExcept(c) ==
    /\ cn_in = c
    /\ cn_pc = "except"
    /\ cn_calls' = [cn_calls EXCEPT ![c] = Append(@, "rollback")]
    /\ IF c = "target"
       THEN cn_tx_ts' = cn_ts /\ cn_tx_wf' = cn_wf
       ELSE UNCHANGED cnTx
    /\ cn_pc' = "finally"
    /\ UNCHANGED <<notConn, cnDb, cnRun, cn_in, cn_conn, cn_left, cn_exc, cn_outcome,
                   cn_start>>

\* finally: conn.close().  After the target's generator the source's runs,
\* with the exception if one propagates; after the source's, run is over.
ConnFinally(c) ==
    /\ cn_in = c
    /\ cn_pc = "finally"
    /\ cn_calls' = [cn_calls EXCEPT ![c] = Append(@, "close")]
    /\ cn_conn' = [cn_conn EXCEPT ![c] = "closed"]
    /\ IF c = "target"
       THEN /\ cn_in' = "source"
            /\ cn_pc' = IF cn_exc THEN "except" ELSE "commit"
            /\ cn_left' = [cn_left EXCEPT
                               !["source"] = IF cn_exc THEN "exception" ELSE "clean"]
            /\ UNCHANGED cn_outcome
       ELSE /\ cn_in' = "run"
            /\ cn_pc' = "after"
            /\ cn_outcome' = IF cn_exc THEN "raised" ELSE "returned"
            /\ UNCHANGED cn_left
    /\ UNCHANGED <<notConn, cnDb, cnTx, cnRun, cn_exc, cn_start>>

\* The scheduler invokes run again.
NextRun ==
    /\ cn_in = "run"
    /\ cn_pc = "after"
    /\ cn_pc' = "idle"
    /\ cn_conn' = [c \in Conns |-> "none"]
    /\ cn_calls' = [c \in Conns |-> <<>>]
    /\ cn_left' = [c \in Conns |-> "none"]
    /\ cn_exc' = FALSE
    /\ cn_outcome' = "none"
    /\ cn_settings' = DefaultTimestampSettings
    /\ cn_queue' = <<>>
    /\ cn_idx' = 1
    /\ cn_early' = FALSE
    /\ UNCHANGED <<notConn, cnDb, cnTx, cn_in, cn_start>>

\* Up to MaxLimit staged orders, closed or still open.
InitConn ==
    /\ stg_orders = <<>>
    /\ batch_limit = BatchLimit
    /\ dm_users = {}
    /\ dm_restaurants = {}
    /\ dm_timestamps = {}
    /\ InitLoader
    /\ InitNoSave
    /\ fct_product_sales = <<>>
    /\ InitNoConc
    /\ InitScd
    /\ InitStaging
    /\ InitNoCall
    /\ InitNoDrain
    /\ InitNoBatch
    /\ InitNoExt
    /\ InitNoRun
    /\ \E n \in 0..MaxLimit :
           cn_orders \in [1..n -> [date : Ticks, final_status : {"CLOSED", "OPEN"}]]

NextConn ==
    \/ \E c \in Conns : ConnClient(c)
    \/ \E c \in Conns : ConnClientFails(c)
    \/ GetSetting
    \/ ListTimestamps
    \/ ReturnEmpty
    \/ InsertTimestamp
    \/ SaveTimestampSetting
    \/ BodyRaises
    \/ \E c \in Conns : ConnCommit(c)
    \/ \E c \in Conns : ConnCommitRaises(c)
    \/ \E c \in Conns : ConnExcept(c)
    \/ \E c \in Conns : ConnFinally(c)
    \/ NextRun

SpecConn == InitConn /\ [][NextConn]_vars

\* ------------------- the timestamps loader while orders arrive in staging
\* Between two runs the stg loader of the orders inserts one more order into
\* stg.ordersystem_orders, with whatever date the order has.
StageFinalOrder(date, final_status) ==
    /\ cn_in = "run"
    /\ cn_pc = "idle"
    /\ Len(cn_orders) < MaxLimit
    /\ cn_orders' = Append(cn_orders, [date |-> date, final_status |-> final_status])
    /\ UNCHANGED <<ordersVars, scdVars, stagingVars, readerVars, storeVars,
                   fct_product_sales, concVars, drainVars, batchVars, extVars,
                   cnDb, cnTx, cnRun, cnMgr, cn_pc, cn_in, cn_start>>

\* Staging is empty and no run has started.
InitStaged ==
    /\ InitConn
    /\ cn_orders = <<>>

\* The steps of a run in which nothing raises.
NextTimestamps ==
    \/ \E c \in Conns : ConnClient(c)
    \/ GetSetting
    \/ ListTimestamps
    \/ ReturnEmpty
    \/ InsertTimestamp
    \/ SaveTimestampSetting
    \/ \E c \in Conns : ConnCommit(c)
    \/ \E c \in Conns : ConnFinally(c)
    \/ NextRun

NextStaged ==
    \/ NextTimestamps
    \/ \E d \in Ticks : \E s \in {"CLOSED", "CANCELLED", "OPEN"} : StageFinalOrder(d, s)

\* The scheduler keeps running the timestamps loader, and a run that has
\* started runs on.
SpecStaged ==
    /\ InitStaged
    /\ [][NextStaged]_vars
    /\ WF_vars(NextTimestamps)

\* ------------------------------------------ the ON CONFLICT clauses of the writers
\* What the specifications of this part and of the next two leave untouched.
notOps == <<ordersVars, scdVars, stagingVars, readerVars, storeVars, fct_product_sales,
            concVars, connVars, drainVars, batchVars, pagingVars, offsetVars, tiesVars>>

\* No pipeline runs.
InitOpsBase ==
    /\ stg_orders = <<>>
    /\ batch_limit = BatchLimit
    /\ dm_users = {}
    /\ dm_restaurants = {}
    /\ dm_timestamps = {}
    /\ InitLoader
    /\ InitNoSave
    /\ fct_product_sales = <<>>
    /\ InitNoConc
    /\ InitNoConn
    /\ InitNoDrain
    /\ InitNoBatch
    /\ InitScd
    /\ InitStaging
    /\ InitNoCall
    /\ InitNoPaging
    /\ InitNoOffset
    /\ InitNoTies

\* The tables of the writers whose conflict target is their business key.
ConflictTables ==
    {"fct_product_sales", "fct_deliveries", "dm_timestamps", "stg_deliveries",
     "dm_orders", "dm_users", "dm_couriers", "stg_objects"}

\* The rows of the table that share the business key of the row.
Conflicting(table, row) == {r \in table : r.key = row.key}

\* A DO NOTHING clause where the writer has DO UPDATE SET.
InsertDoNothing(table, row) ==
    [rows   |-> IF Conflicting(table, row) = {} THEN table \cup {row} ELSE table,
     raised |-> FALSE]

\* INSERT ... ON CONFLICT (courier_id, order_id) DO NOTHING
insert_delivery(table, delivery) ==
    [rows   |-> IF Conflicting(table, delivery) = {} THEN table \cup {delivery}
                ELSE table,
     raised |-> FALSE]

\* INSERT ... ON CONFLICT (user_id) DO UPDATE SET user_name = EXCLUDED.user_name,
\* user_login = EXCLUDED.user_login: every column but the key is set.
insert_user(table, user) ==
    [rows   |-> (table \ Conflicting(table, user)) \cup {user},
     raised |-> FALSE]

\* The INSERT of each writer, by the action of its ON CONFLICT clause:
\* DO NOTHING in fct_product_sales_loader.py 96-98, fct_deliveries_loader.py
\* 90-92, dm_timestamps_loader.py 63-65 and delivery_system_deliveries_loader.py
\* 70-72; DO UPDATE SET of every other column in dm_orders_loader.py 93-99,
\* dm_users_loader.py 76-80, dm_couriers_loader.py 57-60 and the remaining
\* staging loaders.
insert_row(kind, table, row) ==
    IF kind \in {"fct_product_sales", "fct_deliveries", "dm_timestamps", "stg_deliveries"}
    THEN insert_delivery(table, row)
    ELSE insert_user(table, row)

\* The rows a writer can be handed: a business key and the other columns.
\* The columns of dm_timestamps (year, month, day, time, date) are computed
\* from ts, its key.
RowsOf(kind) ==
    IF kind = "dm_timestamps" THEN {[key |-> k, fields |-> k] : k \in 1..MaxLimit}
    ELSE [key : 1..MaxLimit, fields : Names]

\* One call of the writer.
WriteRow(row) ==
    /\ cf_kind # "none"
    /\ cf_rows' = insert_row(cf_kind, cf_rows, row).rows
    /\ cf_raised' = (cf_raised \/ insert_row(cf_kind, cf_rows, row).raised)
    /\ cf_first' = IF row.key \in DOMAIN cf_first THEN cf_first
                   ELSE [k \in DOMAIN cf_first \cup {row.key} |->
                            IF k = row.key THEN row.fields ELSE cf_first[k]]
    /\ cf_last' = [k \in DOMAIN cf_last \cup {row.key} |->
                      IF k = row.key THEN row.fields ELSE cf_last[k]]
    /\ UNCHANGED <<notOps, cf_kind, dagVars, ddlVars>>

InitConflict ==
    /\ InitOpsBase
    /\ InitNoDag
    /\ InitNoDdl
    /\ cf_kind \in ConflictTables
    /\ cf_rows = {}
    /\ cf_first = <<>>
    /\ cf_last = <<>>
    /\ cf_raised = FALSE

NextConflict ==
    \/ \E row \in RowsOf(cf_kind) : WriteRow(row)

SpecConflict == InitConflict /\ [][NextConflict]_vars

\* ------------------------------------- the scheduled run, task by task (sprint5_dag.py)
\* The task groups and their tasks.
GroupTasks ==
    [INIT  |-> {"INIT.stg", "INIT.dds", "INIT.cdm"},
     STG_1 |-> {"bonussystem_ranks", "bonussystem_users", "bonussystem_events"},
     STG_2 |-> {"ordersystem_restaurants", "ordersystem_orders", "ordersystem_users"},
     STG_3 |-> {"deliverysystem_restaurants", "deliverysystem_couriers",
                "deliverysystem_deliveries"},
     DDS   |-> {"dm_users", "dm_restaurants", "dm_timestamps", "dm_couriers",
                "dm_products", "dm_orders", "fct_product_sales", "fct_deliveries"},
     CDM   |-> {"dm_settlement_report", "dm_courier_ledger"}]

StgTasks == GroupTasks.STG_1 \cup GroupTasks.STG_2 \cup GroupTasks.STG_3

Tasks == GroupTasks.INIT \cup StgTasks \cup GroupTasks.DDS \cup GroupTasks.CDM

\* The >> lines inside load_dds, as (upstream, downstream).
TaskEdges ==
    {<<"dm_restaurants", "dm_products">>}
        \cup ({"dm_users", "dm_restaurants", "dm_timestamps"} \X {"dm_orders"})
        \cup ({"dm_products", "dm_orders"} \X {"fct_product_sales"})
        \cup ({"dm_orders", "dm_couriers"} \X {"fct_deliveries"})

\* The tasks of a group with no upstream task in the group, and those with
\* no downstream task in it.
Roots(tasks) == {t \in tasks : ~\E u \in tasks : <<u, t>> \in TaskEdges}
Leaves(tasks) == {t \in tasks : ~\E d \in tasks : <<t, d>> \in TaskEdges}

\* dwh_init >> [stg_1_loader, stg_2_loader, stg_3_loader] >> dds_loader >>
\* cdm_loader: the leaves of the group on the left become upstream of the
\* roots of the group on the right.
GroupEdges ==
    (Leaves(GroupTasks.INIT) \X Roots(StgTasks))
        \cup (Leaves(StgTasks) \X Roots(GroupTasks.DDS))
        \cup (Leaves(GroupTasks.DDS) \X Roots(GroupTasks.CDM))

\* The upstream tasks of every task.
UpstreamOf ==
    [task \in Tasks |-> {u \in Tasks : <<u, task>> \in TaskEdges \cup GroupEdges}]

Upstream(task) == UpstreamOf[task]

Finished == {"success", "failed"}

\* TriggerRule.ALL_SUCCESS, the rule of a task that is given none.
all_success(task) == \A u \in Upstream(task) : dag_state[u] = "success"

\* 'trigger_rule': TriggerRule.ALL_DONE in default_args: every upstream task
\* has finished, whatever its outcome.
all_done(task) == \A u \in Upstream(task) : dag_state[u] \in Finished

\* The scheduler starts a task whose trigger rule is met.
StartTask(task) ==
    /\ dag_state # <<>>
    /\ dag_state[task] = "none"
    /\ all_done(task)
    /\ dag_state' = [dag_state EXCEPT ![task] = "running"]
    /\ UNCHANGED <<notOps, cfVars, ddlVars, dag_fails>>

\* The callable of a task returns, or raises.
FinishTask(task) ==
    /\ dag_state # <<>>
    /\ dag_state[task] = "running"
    /\ dag_state' = [dag_state EXCEPT
                        ![task] = IF task \in dag_fails THEN "failed" ELSE "success"]
    /\ UNCHANGED <<notOps, cfVars, ddlVars, dag_fails>>

\* The tasks whose callable can raise in the runs explored: a staging loader,
\* a dimension loader with one downstream loader and one with two.
FailingTasks == {"ordersystem_orders", "dm_restaurants", "dm_orders"}

\* A run is scheduled; any of the failing tasks is going to fail in it.
InitDag ==
    /\ InitOpsBase
    /\ InitNoConflict
    /\ InitNoDdl
    /\ dag_state = [t \in Tasks |-> "none"]
    /\ dag_fails \in SUBSET FailingTasks

NextDag ==
    \/ \E task \in Tasks : StartTask(task)
    \/ \E task \in Tasks : FinishTask(task)

SpecDag == InitDag /\ [][NextDag]_vars

\* ------------------------------------------- SchemaDdl.init (lib/schema_init.py)
\* The scripts of the directory, by file name, and the times a script can
\* have been modified at.
Scripts == 1..NScripts
MTimes == {1, 2}

\* file_paths left in the order of path.iterdir().
keep_listing_order(paths) == paths

\* file_paths.sort(key=lambda x: x.name)
sort_by_name(paths) == SortedIds({paths[i] : i \in 1..Len(paths)})

\* The subsequence of the listing whose scripts pass the test.
RECURSIVE FilterPaths(_, _)
FilterPaths(listing, keep) ==
    IF listing = <<>> THEN <<>>
    ELSE (IF Head(listing) \in keep THEN <<Head(listing)>> ELSE <<>>)
             \o FilterPaths(Tail(listing), keep)

\* if not prev_execution_date: prev_execution_date = DateTime.min
\* [file for file in path.iterdir()
\*  if os.path.getmtime(file) > prev_execution_date.timestamp()]
ModifiedSince(mtime, prev_execution_date) ==
    {f \in DOMAIN mtime : prev_execution_date = Null \/ mtime[f] > prev_execution_date}

\* init up to the loop: the scripts to apply.
DdlList ==
    /\ ddl_pc = "start"
    /\ ddl_paths' = sort_by_name(FilterPaths(ddl_listing,
                                             ModifiedSince(ddl_mtime, ddl_prev)))
    /\ ddl_i' = 1
    /\ ddl_pc' = "loop"
    /\ UNCHANGED <<notOps, cfVars, dagVars, ddl_mtime, ddl_fails, ddl_prev, ddl_listing,
                   ddl_tx, ddl_committed, ddl_executed>>

\* with self._db.connection() as conn: with conn.cursor() as cur:
\* cur.execute(script), for a script the database accepts.
DdlExecute ==
    /\ ddl_pc = "loop"
    /\ ddl_i <= Len(ddl_paths)
    /\ ddl_paths[ddl_i] \notin ddl_fails
    /\ ddl_tx' = ddl_paths[ddl_i]
    /\ ddl_executed' = Append(ddl_executed, ddl_paths[ddl_i])
    /\ ddl_pc' = "in_tx"
    /\ UNCHANGED <<notOps, cfVars, dagVars, ddl_mtime, ddl_fails, ddl_prev, ddl_listing,
                   ddl_paths, ddl_i, ddl_committed>>

\* cur.execute(script) raises: PgConnect.connection rolls back, closes and
\* re-raises, and init is left by the exception.
DdlExecuteRaises ==
    /\ ddl_pc = "loop"
    /\ ddl_i <= Len(ddl_paths)
    /\ ddl_paths[ddl_i] \in ddl_fails
    /\ ddl_tx' = Null
    /\ ddl_executed' = Append(ddl_executed, ddl_paths[ddl_i])
    /\ ddl_pc' = "raised"
    /\ UNCHANGED <<notOps, cfVars, dagVars, ddl_mtime, ddl_fails, ddl_prev, ddl_listing,
                   ddl_paths, ddl_i, ddl_committed>>

\* The with-block is left: conn.commit(), conn.close(), i += 1.
DdlCommit ==
    /\ ddl_pc = "in_tx"
    /\ ddl_committed' = Append(ddl_committed, ddl_tx)
    /\ ddl_tx' = Null
    /\ ddl_i' = ddl_i + 1
    /\ ddl_pc' = "loop"
    /\ UNCHANGED <<notOps, cfVars, dagVars, ddl_mtime, ddl_fails, ddl_prev, ddl_listing,
                   ddl_paths, ddl_executed>>

\* The loop is over: init returns.
DdlReturn ==
    /\ ddl_pc = "loop"
    /\ ddl_i > Len(ddl_paths)
    /\ ddl_pc' = "done"
    /\ UNCHANGED <<notOps, cfVars, dagVars, ddl_mtime, ddl_fails, ddl_prev, ddl_listing,
                   ddl_paths, ddl_i, ddl_tx, ddl_committed, ddl_executed>>

\* The orders iterdir() lists the scripts in: the order is arbitrary, and
\* the ones explored are the order by name and its rotations.
Listings ==
    {[i \in Scripts |-> ((i + r - 1) % NScripts) + 1] : r \in 0..(NScripts - 1)}

\* init is called on a directory of NScripts scripts.
InitDdl ==
    /\ InitOpsBase
    /\ InitNoConflict
    /\ InitNoDag
    /\ ddl_mtime \in [Scripts -> MTimes]
    /\ ddl_fails \in SUBSET Scripts
    /\ ddl_prev \in {Null} \cup MTimes
    /\ ddl_listing \in Listings
    /\ ddl_paths = <<>>
    /\ ddl_i = 1
    /\ ddl_pc = "start"
    /\ ddl_tx = Null
    /\ ddl_committed = <<>>
    /\ ddl_executed = <<>>

NextDdl ==
    \/ DdlList
    \/ DdlExecute
    \/ DdlExecuteRaises
    \/ DdlCommit
    \/ DdlReturn

SpecDdl == InitDdl /\ [][NextDdl]_vars

\* ------------------------------------------------------------------ claims
\* The stored watermark as the pair it is compared by; no row is the default.
StoredKey(table) ==
    LET json == json2str(ParseOrderSettings(get_setting(table, OrdersWfKey)))
    IN  <<json.last_loaded_ts, json.last_loaded_oid>>

\* Lexicographic a <= b on pairs.
PairLeq(a, b) == a[1] < b[1] \/ (a[1] = b[1] /\ a[2] <= b[2])

RowOf(order) ==
    [order_status  |-> order.final_status,
     user_id       |-> order.user_fk,
     restaurant_id |-> order.restaurant_fk,
     timestamp_id  |-> order.timestamp_fk]

\* C1: in every committed state the watermark row is there exactly when a
\* batch was committed, it is the key of that batch's maximum, every row of
\* that batch is in dds.dm_orders, and dds.dm_orders holds rows of
\* committed batches only.
C1_CommittedTogether ==
    /\ (OrdersWfKey \in DOMAIN srv_wf_settings) <=> (committed_batch # <<>>)
    /\ committed_batch # <<>> =>
          /\ srv_wf_settings[OrdersWfKey] =
                 [last_loaded_ts  |-> max(committed_batch).update_ts \div TicksPerSec,
                  last_loaded_oid |-> max(committed_batch).object_id]
          /\ \A i \in 1..Len(committed_batch) :
                 /\ committed_batch[i].object_id \in DOMAIN dm_orders
                 /\ dm_orders[committed_batch[i].object_id] = RowOf(committed_batch[i])
    /\ DOMAIN dm_orders = committed_keys

\* An invocation has committed a batch of two rows and its watermark, and a
\* later one is in the middle of its writes.
C1_Witness ==
    /\ pc = "insert_order"
    /\ idx = 2
    /\ Len(committed_batch) = 2
    /\ DOMAIN tx_dm_orders # DOMAIN dm_orders

\* C2: an invocation that raised or was aborted leaves dds.dm_orders and the
\* watermark row as they were when it opened, so that the next invocation
\* loads the watermark this one loaded and, the dimensions being the same,
\* reads the batch this one read.
C2_FailureLeavesNoTrace ==
    (pc = "idle" /\ result = "failed") =>
        /\ dm_orders = start_dm_orders
        /\ srv_wf_settings = start_wf_settings
        /\ ParseOrderSettings(get_setting(srv_wf_settings, OrdersWfKey)) = order_settings
        /\ (did_read /\ env_same) =>
               list_orders(order_settings, batch_limit) = load_queue

\* An invocation failed after its writes and its save_setting, before the
\* commit.
C2_Witness ==
    /\ pc = "idle"
    /\ result = "failed"
    /\ env_same
    /\ Len(load_queue) = 2
    /\ DOMAIN tx_dm_orders # DOMAIN dm_orders
    /\ tx_wf_settings # srv_wf_settings

\* C3: a successful invocation never lowers the persisted watermark.
C3_WatermarkNeverDecreases ==
    (pc = "idle" /\ result = "committed") =>
        PairLeq(StoredKey(start_wf_settings), StoredKey(srv_wf_settings))

\* Every required reference of a joined row is present.
Resolved(row) ==
    /\ row.user_fk # Null
    /\ row.restaurant_fk # Null
    /\ row.timestamp_fk # Null

\* C4: the invocation that reads GapBatch records of which the third is the
\* first unresolved one commits exactly the first two and leaves the key of
\* the second as the watermark the next invocation loads; and once the
\* missing user is there, an invocation that starts with exactly those two
\* written reads a batch that begins with the third record.
C4_GapThenResume ==
    /\ (pc = "idle" /\ result = "committed" /\ Len(fetched) = GapBatch
            /\ Resolved(fetched[1]) /\ Resolved(fetched[2]) /\ ~Resolved(fetched[3])) =>
          /\ DOMAIN dm_orders = {fetched[1].object_id, fetched[2].object_id}
          /\ ParseOrderSettings(get_setting(srv_wf_settings, OrdersWfKey))
                 = SettingsOf(fetched[2])
    /\ (pc = "insert_order" /\ did_read
            /\ DOMAIN start_dm_orders = {GapOrder[1].object_id, GapOrder[2].object_id}
            /\ stg_orders[GapOrder[3].object_id].user \in dm_users) =>
          /\ fetched # <<>>
          /\ fetched[1].object_id = GapOrder[3].object_id

\* C5: what the reader hands over is a prefix of what the query returned,
\* every row of it has all its references, and the row of the query that
\* follows it, if there is one, lacks a reference.
C5_LongestResolvedPrefix ==
    did_read =>
        /\ Len(load_queue) <= Len(fetched)
        /\ \A i \in 1..Len(load_queue) :
               load_queue[i] = fetched[i] /\ Resolved(fetched[i])
        /\ Len(load_queue) < Len(fetched) =>
               ~Resolved(fetched[Len(load_queue) + 1])

\* The query returned an unresolved row followed by a resolved one, and
\* nothing was handed over.
C5_Witness ==
    /\ did_read
    /\ Len(fetched) = 2
    /\ ~Resolved(fetched[1])
    /\ Resolved(fetched[2])
    /\ load_queue = <<>>

\* C7: an invocation that starts when every staged order is already in
\* dds.dm_orders (nothing can have changed since: the dimensions only grow,
\* and all of them are there) and ends normally leaves dds.dm_orders and the
\* watermark row as they were.
C7_RerunChangesNothing ==
    (pc = "idle" /\ result = "committed"
         /\ DOMAIN start_dm_orders = DOMAIN stg_orders) =>
        /\ dm_orders = start_dm_orders
        /\ srv_wf_settings = start_wf_settings

\* C9: the watermark an invocation loads is the watermark the last
\* committed invocation computed from the maximum of its batch.
C9_WatermarkRoundTrips ==
    (pc = "list_orders" /\ committed_batch # <<>>) =>
        order_settings = SettingsOf(max(committed_batch))

\* The rows of a table without their serial ids.
Versions(table) ==
    {[key |-> r.key, payload |-> r.payload, active_from |-> r.active_from,
      active_to |-> r.active_to] : r \in table}

\* The log of the writes A at t0, B at t1, and of those followed by B at t1
\* once more.
WroteAThenB(log, a, t0, b, t1) ==
    \/ log = <<[name |-> a, update_ts |-> t0], [name |-> b, update_ts |-> t1]>>
    \/ log = <<[name |-> a, update_ts |-> t0], [name |-> b, update_ts |-> t1],
               [name |-> b, update_ts |-> t1]>>

\* The two rows: pa closed over [t0, t1), pb open from t1.
ClosedThenOpen(table, pa, t0, pb, t1) ==
    /\ Cardinality(table) = 2
    /\ Versions(table) =
           {[key |-> 1, payload |-> pa, active_from |-> t0, active_to |-> t1],
            [key |-> 1, payload |-> pb, active_from |-> t1,
             active_to |-> ActiveToSentinel]}

ProductPayload(name) ==
    [product_name |-> name, product_price |-> 1, restaurant_id |-> 1]

\* C10: after A at t0 and then a different B at t1 were written for a key
\* that had no row, and also after B at t1 was written once more, the table
\* holds two rows for the key: A closed over [t0, t1) and B open from t1.
\* For dds.dm_restaurants and for dds.dm_products.
C10_ScdClosure ==
    \A a, b \in Names : \A t0, t1 \in Ticks :
        (a # b /\ t0 < t1) =>
            /\ WroteAThenB(restaurant_log, a, t0, b, t1) =>
                   ClosedThenOpen(dm_restaurants_rows, [restaurant_name |-> a], t0,
                                  [restaurant_name |-> b], t1)
            /\ WroteAThenB(product_log, a, t0, b, t1) =>
                   ClosedThenOpen(dm_products_rows, ProductPayload(a), t0,
                                  ProductPayload(b), t1)

\* C6: every product on the menu of a staged restaurant that has no row in
\* dds.dm_restaurants lies beyond the watermark the products loader will
\* load: its key is above it, so that a later run can still read it.
C6_NoProductPassedOver ==
    \A oid \in DOMAIN os_restaurants :
        (~\E r \in dm_restaurants_rows : r.key = oid) =>
            \A pid \in Menu(oid) :
                ProductsWhere(os_restaurants[oid].update_ts, oid, pid,
                              ProductSettingsLoaded)

\* The comparison key of a record of the batch, of the watermark the reader
\* was called with, and of every record of the source.
BatchKey(record) ==
    CASE rd_kind = "events"   -> <<record.event_ts, record.id>>
      [] rd_kind = "orders"   -> <<record.update_ts, record.object_id>>
      [] rd_kind = "products" -> <<record.update_ts, record.restaurant_id,
                                   record.product_id>>

WatermarkKey ==
    CASE rd_kind = "events"   -> <<rd_settings.last_loaded_ts, rd_settings.last_loaded_id>>
      [] rd_kind = "orders"   -> <<rd_settings.last_loaded_ts, rd_settings.last_loaded_oid>>
      [] rd_kind = "products" -> <<rd_settings.last_loaded_ts,
                                   rd_settings.last_loaded_restaurant_id,
                                   rd_settings.last_loaded_product_id>>

\* The records a reader reads from: the rows of the outbox, the documents
\* of the collection, the rows of the join of the staged menus with
\* dds.dm_restaurants.
SourceKeys ==
    IF rd_kind = "products"
    THEN {<<os_restaurants[j[1]].update_ts, j[1], j[2]>> :
              j \in ProductsJoin(os_restaurants, dm_restaurants_rows)}
    ELSE {<<rd_source[id], id>> : id \in DOMAIN rd_source}

\* The batch has at most 'limit' records, strictly ascending by key, each a
\* record of the source above the watermark, and every record of the source
\* above the watermark that is not in it is above all of the batch, the
\* batch then being full.
NextPrefix(keys, limit) ==
    LET qualifying == {k \in SourceKeys : TupleLt(WatermarkKey, k)}
    IN  /\ Len(keys) <= limit
        /\ \A i \in 1..(Len(keys) - 1) : TupleLt(keys[i], keys[i + 1])
        /\ \A i \in 1..Len(keys) : keys[i] \in qualifying
        /\ \A q \in qualifying :
               (\A i \in 1..Len(keys) : keys[i] # q) =>
                   /\ Len(keys) = limit
                   /\ \A i \in 1..Len(keys) : TupleLt(keys[i], q)

\* C8: what list_events, the stg_2 list_orders and list_products return for
\* a watermark w and a limit n has at most n records, is strictly ascending
\* by the comparison key, holds only records with a key lexicographically
\* above w, and is the n smallest such records of the source: a record
\* above w that is left out is above every record returned.
C8_ReaderReturnsNextPrefix ==
    rd_done =>
        NextPrefix([i \in 1..Len(rd_batch) |-> BatchKey(rd_batch[i])], rd_limit)

\* list_products returned a full batch, left a record above the watermark
\* out and refused a record that shares the timestamp and the restaurant of
\* the watermark; one of the restaurants joined has two rows in the dimension.
C8_Witness ==
    /\ rd_done
    /\ rd_kind = "products"
    /\ Len(rd_batch) = rd_limit
    /\ rd_limit > 1
    /\ \E k \in SourceKeys :
           /\ TupleLt(WatermarkKey, k)
           /\ \A i \in 1..Len(rd_batch) : BatchKey(rd_batch[i]) # k
    /\ \E k \in SourceKeys :
           /\ k[1] = WatermarkKey[1]
           /\ k[2] = WatermarkKey[2]
           /\ k[3] <= WatermarkKey[3]
    /\ \E r1 \in dm_restaurants_rows : \E r2 \in dm_restaurants_rows :
           r1.key = r2.key /\ r1.id # r2.id

\* The natural keys that have a row, and the open rows of a key.
KeysOf(table) == {r.key : r \in table}

OpenRows(table, key) ==
    {r \in table : r.key = key /\ r.active_to = ActiveToSentinel}

\* C11: after any sequence of versioned writes, every natural key that has
\* a row in dds.dm_restaurants or dds.dm_products has exactly one row whose
\* active_to is the open-ended sentinel: never two, and never none.
C11_OneOpenRowPerKey ==
    /\ \A key \in KeysOf(dm_restaurants_rows) :
           Cardinality(OpenRows(dm_restaurants_rows, key)) = 1
    /\ \A key \in KeysOf(dm_products_rows) :
           Cardinality(OpenRows(dm_products_rows, key)) = 1

\* The part of C11 that no order of the two sub-statements breaks: a key
\* never has two open rows.
AtMostOneOpenRowPerKey ==
    /\ \A key \in KeysOf(dm_restaurants_rows) :
           Cardinality(OpenRows(dm_restaurants_rows, key)) <= 1
    /\ \A key \in KeysOf(dm_products_rows) :
           Cardinality(OpenRows(dm_products_rows, key)) <= 1

\* Every closed row of 'before' is a row of 'after', column for column.
ClosedRowsKept(before, after) ==
    \A r \in before : r.active_to # ActiveToSentinel => r \in after

\* C12: a versioned write changes no column of a row whose active_to was
\* already set to a value other than the sentinel: a closed row of
\* dds.dm_restaurants or dds.dm_products stays as it is.
C12_ClosedRowsImmutable ==
    [][/\ ClosedRowsKept(dm_restaurants_rows, dm_restaurants_rows')
       /\ ClosedRowsKept(dm_products_rows, dm_products_rows')]_vars

\* C13: when the batch handed to the driver is empty (nothing beyond the
\* watermark, or the gap scan cut at the first record), the invocation has
\* written no row and no watermark inside its transaction, its only way on
\* is the early return (no record write, no save_setting), and after the
\* return dds.dm_orders and the watermark row are what they were when the
\* invocation started.
C13_EmptyBatchChangesNothing ==
    /\ (pc = "insert_order" /\ load_queue = <<>>) =>
           /\ tx_dm_orders = start_dm_orders
           /\ tx_wf_settings = start_wf_settings
           /\ ENABLED QuitEmpty
           /\ ~ENABLED InsertOrder
           /\ ~ENABLED SaveSetting
    /\ (pc = "exit") => load_queue # <<>>
    /\ (pc = "idle" /\ did_read /\ load_queue = <<>> /\ result = "committed") =>
           /\ dm_orders = start_dm_orders
           /\ srv_wf_settings = start_wf_settings

\* An invocation returned early on a batch the gap scan emptied, after an
\* earlier invocation had loaded rows and stored a watermark.
C13_Witness ==
    /\ pc = "idle"
    /\ did_read
    /\ result = "committed"
    /\ load_queue = <<>>
    /\ fetched # <<>>
    /\ DOMAIN dm_orders # {}
    /\ get_setting(srv_wf_settings, OrdersWfKey) # EmptySettings

\* The ordered source a paginated reader reads: what the endpoint serves
\* from the offset the reader starts at.
PagedSource ==
    SubSeq(rd_source, rd_settings.offset + 1, Len(rd_source))

\* C14: list_deliveries and list_couriers, reading pages of p records with
\* an outer limit n from an ordered source of m records, return the first
\* min(n, m) records of the source in order, as one read with limit n
\* would, for every p >= 1, n >= 0 and m >= 0.
C14_PaginationEquivalence ==
    rd_done =>
        rd_batch = SubSeq(PagedSource, 1, Min(rd_limit, Len(PagedSource)))

\* list_deliveries read a source of 7 records with page size 2 and limit 5
\* and returned the first 5.
C14_Witness ==
    /\ rd_done
    /\ rd_kind = "deliveries"
    /\ rd_page_size = 2
    /\ rd_limit = 5
    /\ Len(rd_source) = 7
    /\ rd_batch = <<1, 2, 3, 4, 5>>

\* The pipeline key of the loader that runs, the keys of the records of
\* its source, the key of a record it read and the smallest of a set of keys.
LoaderWfKey == IF rd_kind = "events" THEN EventsWfKey ELSE CouriersWfKey

LoaderSourceKeys ==
    IF rd_kind = "events"
    THEN {<<rd_source[id], id>> : id \in DOMAIN rd_source}
    ELSE {<<id>> : id \in DOMAIN rd_source}

LoaderKey(record) ==
    IF rd_kind = "events" THEN <<record.event_ts, record.id>> ELSE <<record.id>>

Smallest(keys) == CHOOSE k \in keys : \A q \in keys : k = q \/ TupleLt(k, q)

\* C15 as stated: a loader that finds no watermark row reads from the
\* beginning of its source; the events loader and the dds couriers loader
\* then have a first batch that starts with the smallest record of the
\* source, whatever the source holds.
C15_FirstRunReadsFromBeginning ==
    [][(LoaderWfKey \notin DOMAIN srv_wf_settings /\ LoaderSourceKeys # {}) =>
           /\ rd_batch' # <<>>
           /\ LoaderKey(rd_batch'[1]) = Smallest(LoaderSourceKeys)]_vars

\* The keys of the source a first run can read: for the events loader those
\* of the events whose event_ts is not before the start_date it was given.
FirstRunKeys(threshold) ==
    IF rd_kind = "events"
    THEN {k \in LoaderSourceKeys : k[1] >= threshold.last_loaded_ts}
    ELSE LoaderSourceKeys

\* C15 as the code has it: with no watermark row, the dds couriers loader
\* starts from the default -1 and its first batch starts with the smallest
\* courier of the source; the events loader starts from (start_date, -1)
\* and its first batch starts with the smallest event that is not older
\* than start_date, and is empty when there is none.
C15_FirstRunReadsFromThreshold ==
    [][(LoaderWfKey \notin DOMAIN srv_wf_settings) =>
           /\ rd_kind = "couriers" => rd_settings' = [last_loaded_id |-> CourierIdDefault]
           /\ rd_kind = "events" => rd_settings'.last_loaded_id = EventIdDefault
           /\ FirstRunKeys(rd_settings') = {} => rd_batch' = <<>>
           /\ FirstRunKeys(rd_settings') # {} =>
                  /\ rd_batch' # <<>>
                  /\ LoaderKey(rd_batch'[1]) = Smallest(FirstRunKeys(rd_settings'))]_vars

\* The events loader ran on an empty store with a start_date later than an
\* event of the outbox and read a batch; and the store is still empty.
C15_Witness ==
    /\ rd_done
    /\ rd_kind = "events"
    /\ rd_settings.last_loaded_id = EventIdDefault
    /\ rd_batch # <<>>
    /\ \E id \in DOMAIN rd_source : rd_source[id] < rd_settings.last_loaded_ts

\* C16: after save_setting(wf_key, settings) the table has one row for
\* wf_key, inserted if the key had none; that row's value has the fields of
\* the new settings and nothing else, each field holding the new value as
\* json2str writes it; every other key's row is what it was, and no row is
\* gone.
C16_SaveSettingUpserts ==
    st_key # "none" =>
        /\ DOMAIN srv_wf_settings = DOMAIN st_before \cup {st_key}
        /\ DOMAIN srv_wf_settings[st_key] = DOMAIN st_settings
        /\ \A f \in DOMAIN st_settings :
               srv_wf_settings[st_key][f] =
                   IF f = "last_loaded_ts" THEN st_settings[f] \div TicksPerSec
                   ELSE st_settings[f]
        /\ \A k \in DOMAIN st_before \ {st_key} : srv_wf_settings[k] = st_before[k]

\* save_setting replaced a row whose value had other fields than the new
\* settings, another key having a row.
C16_Witness ==
    /\ st_key \in DOMAIN st_before
    /\ DOMAIN st_before[st_key] # DOMAIN st_settings
    /\ DOMAIN st_before \ {st_key} # {}

\* insert_order and insert_sale written twice in a row give what one write
\* gives, on every table the writers can have produced.
UpsertsIdempotent ==
    /\ \A order \in OrderRecords :
           insert_order(insert_order(dm_orders, order), order) =
               insert_order(dm_orders, order)
    /\ \A product_sale \in SaleRecords :
           insert_sale(insert_sale(fct_product_sales, product_sale), product_sale) =
               insert_sale(fct_product_sales, product_sale)

\* insert_product written twice in a row leaves the table the first write
\* left.
VersionedWriteIdempotent ==
    \A product \in ProductRecords :
        \A once \in insert_product(dm_products_rows, product) :
            \A twice \in insert_product(once, product) : twice = once

\* C17: every writer is idempotent per record: on any destination state,
\* writing a record twice in a row gives the state that writing it once
\* gives, for insert_order (overwrite upsert), insert_sale (insert, ignore
\* on conflict) and insert_product (type-2 versioned write).
C17_WritersIdempotent ==
    /\ UpsertsIdempotent
    /\ VersionedWriteIdempotent

\* What the users loader and the couriers loader each read and save when
\* run alone on an empty srv_wf_settings, and the table after one of them.
UsersAlone == list_users(ou_users, bu_users, DefaultUserSettings, batch_limit)

CouriersAlone == dds_list_couriers(cc_couriers, DefaultCourierSettings, batch_limit)

AfterUsers(table) ==
    IF UsersAlone = <<>> THEN table
    ELSE save_setting(table, UsersWfKey, SettingsOf(max(UsersAlone)))

AfterCouriers(table) ==
    IF CouriersAlone = <<>> THEN table
    ELSE save_setting(table, CouriersWfKey,
                      [last_loaded_id |-> max_by_id(CouriersAlone).id])

\* C18: an invocation of the users loader and one of the couriers loader
\* interleaved in any order: each loads the settings of its own key only
\* (the defaults, its own row being absent, whatever the other has
\* committed), a key's row is absent until its own loader has committed,
\* and when both have committed the table is the one that running the two
\* one after the other, in either order, produces.
C18_IndependentWatermarks ==
    cc_kind[1] = "users" =>
        /\ cc_pc[1] # "idle" => cc_settings[1] = DefaultUserSettings
        /\ cc_pc[2] # "idle" => cc_settings[2] = DefaultCourierSettings
        /\ cc_pc[1] # "done" => UsersWfKey \notin DOMAIN srv_wf_settings
        /\ cc_pc[2] # "done" => CouriersWfKey \notin DOMAIN srv_wf_settings
        /\ DOMAIN srv_wf_settings \subseteq {UsersWfKey, CouriersWfKey}
        /\ (cc_pc[1] = "done" /\ cc_pc[2] = "done") =>
               /\ srv_wf_settings = AfterCouriers(AfterUsers(<<>>))
               /\ srv_wf_settings = AfterUsers(AfterCouriers(<<>>))

\* Both loaders were allowed to overlap, both have committed a watermark,
\* the users loader last.
C18_Witness ==
    /\ cc_kind[1] = "users"
    /\ cc_max_active = 2
    /\ cc_pc[1] = "done"
    /\ cc_pc[2] = "done"
    /\ cc_last = 1
    /\ DOMAIN cc_before = {CouriersWfKey}
    /\ DOMAIN srv_wf_settings = {UsersWfKey, CouriersWfKey}

\* C19: two invocations of the orders loader.  Without serialisation the
\* invocation with the smaller batch can commit last and lower the
\* persisted watermark; with at most one active invocation
\* (max_active_runs = 1) no commit lowers the persisted watermark.
C19_SerializedNeverLowers ==
    (cc_kind[1] = "orders" /\ cc_max_active = 1 /\ cc_last # 0) =>
        PairLeq(StoredKey(cc_before), StoredKey(srv_wf_settings))

\* The first half of C19: both invocations overlapped, the one that
\* committed last held the smaller batch, and its commit lowered the
\* persisted watermark.
OverlapLowered ==
    /\ cc_kind[1] = "orders"
    /\ cc_max_active = 2
    /\ cc_last # 0
    /\ \A q \in Slots \ {cc_last} :
           /\ cc_pc[q] = "done"
           /\ cc_settings[q] = cc_settings[cc_last]
           /\ Len(cc_queue[cc_last]) < Len(cc_queue[q])
    /\ ~PairLeq(StoredKey(cc_before), StoredKey(srv_wf_settings))

\* How many times a call was made on a connection.
CallCount(c, call) ==
    Cardinality({i \in 1..Len(cn_calls[c]) : cn_calls[c][i] = call})

\* What is committed in the destination.
Durable == [ts |-> cn_ts, wf |-> cn_wf]

\* C20: the scoped destination connection, once its with-block is left, has
\* performed exactly one of commit and rollback and then close: commit only
\* when the block was left without an exception (the early return on an empty
\* batch included), rollback with the exception re-raised when it was left by
\* one (or when the commit itself raised); only a clean exit commits, after a
\* rollback the destination holds what it held when the run started, and no
\* connection is open once run is over.
C20_ScopedConnection ==
    /\ cn_pc \in {"idle", "after"} => \A c \in Conns : cn_conn[c] # "open"
    /\ "commit" \in {cn_calls["target"][i] : i \in 1..Len(cn_calls["target"])} =>
           /\ cn_left["target"] = "clean"
           /\ cn_calls["target"][1] = "commit"
    /\ cn_left["target"] = "exception" =>
           /\ cn_exc
           /\ Durable = cn_start
           /\ CallCount("target", "commit") = 0
    /\ cn_conn["target"] = "closed" =>
           /\ CallCount("target", "commit") + CallCount("target", "rollback") = 1
           /\ CallCount("target", "close") = 1
           /\ cn_calls["target"][Len(cn_calls["target"])] = "close"
           /\ cn_left["target"] = "exception" =>
                  cn_calls["target"] = <<"rollback", "close">>
           /\ cn_left["target"] = "clean" =>
                  \/ cn_calls["target"] = <<"commit", "close">>
                  \/ /\ cn_calls["target"] = <<"commit raised", "rollback", "close">>
                     /\ cn_exc
                     /\ Durable = cn_start
           /\ CallCount("target", "rollback") = 1 => cn_exc /\ Durable = cn_start
           /\ cn_pc = "after" /\ cn_outcome = "returned" =>
                  cn_calls["target"] = <<"commit", "close">>
           /\ cn_pc = "after" /\ cn_outcome = "raised" => cn_exc

\* A run that wrote a row, was left by an exception, rolled back and closed.
C20_Witness ==
    /\ cn_pc = "after"
    /\ cn_outcome = "raised"
    /\ cn_idx > 1
    /\ cn_left["target"] = "exception"
    /\ cn_calls["target"] = <<"rollback", "close">>
    /\ cn_conn["target"] = "closed"

\* A run that returned early on an empty batch, committed and closed.
EarlyReturnCommitted ==
    /\ cn_pc = "after"
    /\ cn_early
    /\ cn_outcome = "returned"
    /\ cn_calls["target"] = <<"commit", "close">>

\* The last record of a batch, in the order the reader returned it.
LastOf(queue) == queue[Len(queue)]

\* C21: after a run of the events loader or of the dds couriers loader over a
\* non-empty batch, the maximum of the batch under the record's __lt__ is the
\* last record of the batch in the reader's ordering, and the stored
\* watermark carries the id of that record.
C21_MaxIsLastOfBatch ==
    (rd_done /\ rd_batch # <<>>) =>
        /\ max_by_id(rd_batch) = LastOf(rd_batch)
        /\ get_setting(srv_wf_settings,
                       IF rd_kind = "events" THEN EventsWfKey ELSE CouriersWfKey
                      ).last_loaded_id = LastOf(rd_batch).id

\* The positions of the log that hold an operation.
LogOps(op) == {i \in DOMAIN dr_log : dr_log[i].op = op}

\* C22: a drain-loop invocation saves the watermark at most once, as its
\* last operation, right after a read that returned an empty batch and
\* after some earlier read that returned records; while the loop runs the
\* transaction holds the settings the invocation started with.
C22_SavedOnceAfterEmptyRead ==
    /\ Cardinality(LogOps("save")) <= 1
    /\ \A i \in LogOps("save") :
           /\ i = Len(dr_log)
           /\ i > 1
           /\ dr_log[i - 1].op = "read" /\ dr_log[i - 1].n = 0
           /\ \E j \in LogOps("read") : j < i /\ dr_log[j].n > 0
    /\ dr_pc \in {"read", "write", "after_loop"} => dr_tx_wf = srv_wf_settings
    /\ (dr_pc = "commit" /\ dr_tx_wf # srv_wf_settings) => LogOps("save") # {}

\* Two batches were written, then the watermark was saved and committed.
C22_Witness ==
    /\ dr_pc = "done"
    /\ Cardinality(LogOps("write")) = 2
    /\ Cardinality(LogOps("save")) = 1

\* The rows of the source whose key is at or after the loaded watermark,
\* keys compared as tuples.
AtOrAfterWatermark ==
    LET w == IF dr_kind = "settlement"
             THEN <<dr_settings.last_loaded_date>>
             ELSE <<dr_settings.last_loaded_year, dr_settings.last_loaded_month>>
    IN  {r \in dr_source : ~TupleLt(r.key, w)}

\* No two rows of the source agree on the ORDER BY columns.
NoTies == \A r, q \in dr_source : r.key = q.key => r = q

\* C27: after a completed invocation of the courier-ledger loader over a
\* source without two aggregates of the same month, every aggregate whose
\* (year, month) is at or after the loaded watermark is in the ledger.
C27_LedgerLoadsFromWatermark ==
    (dr_kind = "ledger" /\ dr_pc = "done" /\ NoTies) =>
        AtOrAfterWatermark \subseteq dr_table

\* C28: after a completed invocation of the settlement-report loader, every
\* aggregate row with a date at or after the loaded watermark was upserted
\* by it.
C28_SettlementUpsertsEveryRow ==
    (dr_kind = "settlement" /\ dr_pc = "done") =>
        AtOrAfterWatermark \subseteq dr_written

\* The rows the reads before position i of the log returned.
RECURSIVE RowsReadBefore(_)
RowsReadBefore(i) ==
    IF i <= 1 THEN 0
    ELSE RowsReadBefore(i - 1)
         + (IF dr_log[i - 1].op = "read" THEN dr_log[i - 1].n ELSE 0)

\* The offsets of the reads are the running sum of the batch sizes, and no
\* read follows a read that returned an empty batch.
OffsetsAccumulate ==
    /\ \A i \in LogOps("read") : dr_log[i].offset = RowsReadBefore(i)
    /\ \A i, j \in LogOps("read") :
           (i < j /\ dr_log[i].n > 0) => dr_log[i].offset < dr_log[j].offset
    /\ \A i, j \in LogOps("read") : i < j => dr_log[i].n > 0
    /\ dr_pc = "read" => dr_offset = RowsReadBefore(Len(dr_log) + 1)

\* C29: the offset of every read is the number of rows the earlier reads of
\* the invocation returned and grows with every non-empty read, and an
\* invocation that reads comes to a read that returns an empty batch and
\* leaves the loop (or fails).
C29_DrainLoopTerminates ==
    /\ []OffsetsAccumulate
    /\ (dr_pc = "read") ~> (dr_pc \in {"after_loop", "failed"})

\* The loop was left after three reads at the offsets 0, 2 and 3.
C29_Witness ==
    /\ dr_pc = "after_loop"
    /\ Len(dr_log) = 5
    /\ dr_log[1].offset = 0 /\ dr_log[3].offset = 2 /\ dr_log[5].offset = 3
    /\ dr_log[5].n = 0

\* The largest key of a set of rows, keys compared as tuples.
MaxKeyOf(rows) ==
    CHOOSE k \in {r.key : r \in rows} : \A r \in rows : ~TupleLt(k, r.key)

\* C30: the watermark a drain-loop invocation saves is the largest key of
\* all the rows it wrote.
C30_SavedIsMaxOfInvocation ==
    /\ (dr_pc \in {"commit", "done"} /\ dr_written # {}) =>
           /\ DrainWfKey(dr_kind) \in DOMAIN dr_tx_wf
           /\ ParseSettings(dr_tx_wf[DrainWfKey(dr_kind)], DefaultDrainSettings(dr_kind))
                  = DrainSettingsOf(dr_kind, MaxKeyOf(dr_written))
    /\ (dr_pc = "done" /\ dr_written # {}) =>
           ParseSettings(get_setting(srv_wf_settings, DrainWfKey(dr_kind)),
                         DefaultDrainSettings(dr_kind))
               = DrainSettingsOf(dr_kind, MaxKeyOf(dr_written))

\* Two batches with different maxima were written and the later one saved.
C30_Witness ==
    /\ dr_pc = "done"
    /\ Cardinality(LogOps("write")) = 2
    /\ Cardinality({r.key : r \in dr_written}) = 3


\* The positions of the invocation's log that hold the operation.
BatchOps(op) == {i \in 1..Len(sb_log) : sb_log[i].op = op}

\* The ids the invocation has written, in the order of the writes.
WritesInOrder == SelectSeq(sb_log, LAMBDA e : e.op = "write")

\* C23: a single-batch invocation performs exactly one read, the first
\* operation after loading the watermark; it writes each record of the
\* filtered batch exactly once and in batch order; it calls save_setting at
\* most once, as its last operation and only after the write of the last
\* record of the batch.
C23_SingleBatchProtocol ==
    /\ Cardinality(BatchOps("read")) <= 1
    /\ sb_pc \in {"insert", "commit", "done"} => BatchOps("read") = {1}
    /\ Len(WritesInOrder) <= Len(sb_queue)
    /\ \A i \in 1..Len(WritesInOrder) : WritesInOrder[i].id = sb_queue[i].id
    /\ \A i, j \in 1..Len(sb_queue) : sb_queue[i].id = sb_queue[j].id => i = j
    /\ sb_pc \in {"commit", "done"} => Len(WritesInOrder) = Len(sb_queue)
    /\ Cardinality(BatchOps("save")) <= 1
    /\ \A i \in BatchOps("save") :
           /\ i = Len(sb_log)
           /\ Len(WritesInOrder) = Len(sb_queue)
           /\ sb_log[i - 1].op = "write"
           /\ sb_log[i - 1].id = sb_queue[Len(sb_queue)].id
    /\ (sb_pc = "done" /\ sb_queue # <<>>) => Cardinality(BatchOps("save")) = 1

\* An invocation of the deliveries loader and one of the users loader wrote
\* a batch of two records and saved the watermark.
C23_Witness ==
    /\ sb_kind \in {"deliveries", "users"}
    /\ sb_pc = "done"
    /\ Len(sb_queue) = 2
    /\ Len(sb_log) = 4
    /\ sb_log[4].op = "save"


\* The source records of the joined loader that miss a reference now; the
\* dimensions only grow, so they have missed it since the start.
Unresolved ==
    {id \in DOMAIN sb_source :
        LET row == BatchRowOf(sb_kind, sb_source, id, sb_own_dim, sb_shared_dim)
        IN  row.own_fk = Null \/ row.shared_fk = Null}

\* The key of a source record.
SourceKey(id) == RecordKey(sb_kind, [id |-> id, ts |-> sb_source[id]])

\* The key a stored watermark holds.
StoredWatermarkKey(table) ==
    ThresholdKey(sb_kind, ParseSettings(get_setting(table, BatchWfKey(sb_kind)),
                                        DefaultBatchSettings(sb_kind)))

\* The invocation has just read its batch.
JustRead == sb_pc = "insert" /\ sb_idx = 1

IdsOf(rows) == {rows[i].id : i \in 1..Len(rows)}

\* C24 (the watermark part): the watermark an invocation persisted is one
\* from which the next read returns none of the records already written.
C24_NextReadSkipsWritten ==
    JustRead => IdsOf(sb_fetched) \cap sb_table = {}

\* C24 (the draining part): with a static source and no reference to wait
\* for, repeated invocations eventually have written every source record.
C24_EventuallyDrained ==
    <>[](sb_table = DOMAIN sb_source)

\* C24: both parts.
C24_DrainsByReinvocation ==
    /\ []C24_NextReadSkipsWritten
    /\ C24_EventuallyDrained


\* The order at position i of staging is final and has the date d.
StagedFinal(i, d) ==
    /\ i \in DOMAIN cn_orders
    /\ cn_orders[i].date = d
    /\ cn_orders[i].final_status \in {"CLOSED", "CANCELLED"}

\* C25: for every order staged with the final status CLOSED or CANCELLED,
\* repeated runs of the timestamps loader eventually insert the order's date
\* into dds.dm_timestamps, in whatever order the orders arrive in staging.
C25_TimestampsSelfHeal ==
    \A i \in 1..MaxLimit : \A d \in Ticks :
        StagedFinal(i, d) ~> (d \in cn_ts)


\* The records the first k requests of the call returned, counted.
RECURSIVE ReturnedBy(_)
ReturnedBy(k) == IF k = 0 THEN 0 ELSE ReturnedBy(k - 1) + pl_requests[k].n

\* The records the endpoint has from the base offset on.
AvailableFromBase ==
    IF rd_settings.offset >= Len(rd_source) THEN 0
    ELSE Len(rd_source) - rd_settings.offset

\* Every request so far asked for the base offset plus the records
\* accumulated before it, was sent while fewer than 'limit' records were
\* accumulated, and only the last one may have come back empty.
ContiguousRequests ==
    \A k \in 1..Len(pl_requests) :
        /\ pl_requests[k].before = ReturnedBy(k - 1)
        /\ pl_requests[k].offset = rd_settings.offset + ReturnedBy(k - 1)
        /\ pl_requests[k].before < rd_limit
        /\ k < Len(pl_requests) => pl_requests[k].n > 0

\* The call returned: the loop stopped at an empty page or at the limit, and
\* the result has min(limit, records available from the base offset) records.
EndsAtEmptyOrLimit ==
    pl_pc = "done" =>
        /\ \/ Len(pl_records) >= rd_limit
           \/ pl_requests # <<>> /\ pl_requests[Len(pl_requests)].n = 0
        /\ Len(pl_result) = Min(rd_limit, AvailableFromBase)
        /\ pl_result = SubSeq(rd_source, rd_settings.offset + 1,
                              rd_settings.offset + Len(pl_result))

\* C31: the inner loop of the paginated reader terminates; every request's
\* offset is the base offset plus the number of records accumulated so far,
\* so no position is requested twice or skipped; the loop ends as soon as a
\* page is empty or the accumulated count reaches the limit; the result has
\* min(limit, records available from the base offset) records.
C31_PagingLoopContiguous ==
    /\ [](ContiguousRequests /\ EndsAtEmptyOrLimit)
    /\ <>(pl_pc = "done")

\* From the stored offset 2 a source of 7 records was read with pages of 2
\* and the limit 6: three requests, at the offsets 2, 4 and 6, then an empty
\* page at 7, and the five records left are returned.
C31_Witness ==
    /\ pl_pc = "done"
    /\ rd_settings.offset = 2
    /\ rd_page_size = 2
    /\ rd_limit = 6
    /\ Len(rd_source) = 7
    /\ Len(pl_requests) = 4
    /\ pl_requests[3].offset = 6
    /\ pl_requests[4].offset = 7
    /\ pl_requests[4].n = 0
    /\ pl_result = <<3, 4, 5, 6, 7>>


\* The offset stored for the offset-checkpointed loader.
StoredOffset ==
    ParseSettings(get_setting(of_wf, OffsetWfKey(of_kind)), DefaultOffsetSettings).offset

\* C32 (the offset part): after a run the stored offset is the offset the
\* run loaded plus the number of records it wrote.
C32_OffsetAdvancesByWritten == StoredOffset = of_last.before + of_last.written

\* C32 (the draining part): under repeated runs every record the endpoint
\* has is eventually in staging, wherever in the sort order it was added.
C32_EveryRecordStaged ==
    \A id \in 1..EndpointIds : (id \in of_source) ~> (id \in of_staged)

\* C32: both parts.
C32_OffsetLoaderDrains ==
    /\ []C32_OffsetAdvancesByWritten
    /\ C32_EveryRecordStaged


\* The key the sales loader has stored as its watermark.
SalesWatermark ==
    LET settings == ParseSettings(get_setting(ps_wf, SalesWfKey), DefaultSaleSettings)
    IN  <<settings.last_loaded_ts, settings.last_loaded_product_id>>

\* C33: no source row is lost at a batch boundary of the sales loader: a row
\* that no invocation has written yet is still after the stored watermark,
\* so a later invocation reads and writes it, also when it shares its
\* (event_ts, product_id) key with a row already written.
C33_NoRowLostAtBoundary ==
    \A r \in GroupedSales(ps_lines) \ ps_written : TupleLt(SalesWatermark, r.key)


\* The last_loaded_id stored for the events loader, the field default when
\* no row is stored.
StoredEventId(table) ==
    IF EventsWfKey \in DOMAIN table THEN table[EventsWfKey].last_loaded_id
    ELSE EventIdDefault

\* C34: across the successful invocations of the events loader the persisted
\* last_loaded_id never decreases, whatever the relation of event_ts and id
\* in the source.
C34_EventIdNeverDecreases ==
    [][rd_kind = "events" =>
           StoredEventId(srv_wf_settings') >= StoredEventId(srv_wf_settings)]_vars


\* The foreign keys of a row of dds.dm_orders are all set.
OrderRowResolved(row) ==
    /\ row.user_id # Null
    /\ row.restaurant_id # Null
    /\ row.timestamp_id # Null

\* C35: every row written to dm_orders, fct_product_sales or fct_deliveries
\* has all of its foreign keys resolved: the rows of dds.dm_orders, committed
\* or inside the transaction, hold no null key, and no record of a load_queue,
\* the records the insert loop hands to the writer, lacks a reference.
C35_WrittenRowsResolved ==
    /\ \A k \in DOMAIN dm_orders : OrderRowResolved(dm_orders[k])
    /\ \A k \in DOMAIN tx_dm_orders : OrderRowResolved(tx_dm_orders[k])
    /\ \A i \in 1..Len(load_queue) : AllFks(load_queue[i])
    /\ \A i \in 1..Len(sb_queue) :
           sb_queue[i].own_fk # Null /\ sb_queue[i].shared_fk # Null

\* The deliveries loader read two rows, the second without its order, and
\* wrote the first one only.
C35_Witness ==
    /\ sb_kind = "deliveries"
    /\ sb_pc = "done"
    /\ Len(sb_fetched) = 2
    /\ sb_fetched[2].own_fk = Null
    /\ Len(sb_queue) = 1
    /\ sb_table = {1}


\* C36: start_date is the read threshold only when no watermark is stored;
\* once one is stored, two invocations that differ only in start_date read
\* the same batch and save the same watermark.
C36_StartDateOnlyWithoutWatermark ==
    LET json == get_setting(srv_wf_settings, StartWfKey(rd_kind))
    IN  /\ json = EmptySettings =>
               \A d \in StoredDatetimes :
                   LoadStartSettings(rd_kind, json, d).last_loaded_ts = d
        /\ json # EmptySettings =>
               \A d1, d2 \in StoredDatetimes :
                   /\ StartBatch(d1) = StartBatch(d2)
                   /\ StartSaved(d1) = StartSaved(d2)

\* A run of the deliveries loader found a watermark stored, read a batch
\* from it and not from the start_date of the run.
C36_Witness ==
    /\ rd_kind = "deliveries"
    /\ rd_done
    /\ rd_settings.last_loaded_oid # ObjectIdZero
    /\ rd_batch # <<>>
    /\ \E d \in StoredDatetimes : d > rd_settings.last_loaded_ts


\* C37: for immutable facts and timestamps a second write with the same
\* business key and different field values leaves the first-written row
\* unchanged; for mutable entities the row ends with the last-written field
\* values; neither case raises an error or creates a second row for the key.
C37_ConflictPolicy ==
    /\ ~cf_raised
    /\ \A k \in DOMAIN cf_first :
           /\ Cardinality({r \in cf_rows : r.key = k}) = 1
           /\ \A r \in cf_rows :
                  r.key = k =>
                      r.fields = IF cf_kind \in {"fct_product_sales", "fct_deliveries",
                                                 "dm_timestamps", "stg_deliveries"}
                                 THEN cf_first[k]
                                 ELSE cf_last[k]

\* fct_deliveries was written twice for one key with different field values.
C37_Witness ==
    /\ cf_kind = "fct_deliveries"
    /\ \E k \in DOMAIN cf_first : cf_first[k] # cf_last[k]

\* dm_users was written twice for one key with different field values.
C37_WitnessMutable ==
    /\ cf_kind = "dm_users"
    /\ \E k \in DOMAIN cf_first : cf_first[k] # cf_last[k]


\* The tasks the task is reached from along the edges of the graph.
RECURSIVE Ancestors(_)
Ancestors(task) ==
    Upstream(task) \cup UNION {Ancestors(u) : u \in Upstream(task)}

AncestorsOf == [task \in Tasks |-> Ancestors(task)]

Started(task) == dag_state[task] # "none"

\* Once the downstream task has started, the upstream task has finished.
After(downstream, upstream) ==
    Started(downstream) => dag_state[upstream] \in Finished

\* C38: within one run a loader that joins against a dimension starts only
\* after the loaders of that dimension have finished, every DDS loader after
\* every staging loader and every CDM loader after every DDS loader; and a
\* loader whose upstream loaders have all finished can start even when one
\* of them failed.
C38_JoinsAfterDimensions ==
    /\ After("dm_products", "dm_restaurants")
    /\ \A u \in {"dm_users", "dm_restaurants", "dm_timestamps"} : After("dm_orders", u)
    /\ \A u \in {"dm_products", "dm_orders"} : After("fct_product_sales", u)
    /\ \A u \in {"dm_orders", "dm_couriers"} : After("fct_deliveries", u)
    /\ \A d \in GroupTasks.DDS : \A s \in StgTasks : After(d, s)
    /\ \A c \in GroupTasks.CDM : \A d \in GroupTasks.DDS : After(c, d)
    /\ \A t \in Tasks :
           (/\ ~Started(t)
            /\ \A u \in AncestorsOf[t] : dag_state[u] \in Finished)
               => ENABLED StartTask(t)

\* fct_deliveries has started although dm_orders failed.
C38_Witness ==
    /\ dag_state["dm_orders"] = "failed"
    /\ Started("fct_deliveries")
    /\ Started("dm_courier_ledger")


\* The scripts modified after the previous execution date (all of them when
\* there is none), in ascending order of file name.
ScriptsToApply ==
    SortedIds({f \in Scripts : ddl_prev = Null \/ ddl_mtime[f] > ddl_prev})

\* The scripts to apply up to the first one that fails, and up to the one
\* before it.
UpToFailure ==
    IF \E k \in 1..Len(ScriptsToApply) : ScriptsToApply[k] \in ddl_fails
    THEN LET k == CHOOSE k \in 1..Len(ScriptsToApply) :
                      /\ ScriptsToApply[k] \in ddl_fails
                      /\ \A j \in 1..(k - 1) : ScriptsToApply[j] \notin ddl_fails
         IN  [executed |-> SubSeq(ScriptsToApply, 1, k),
              committed |-> SubSeq(ScriptsToApply, 1, k - 1),
              failed |-> TRUE]
    ELSE [executed |-> ScriptsToApply, committed |-> ScriptsToApply, failed |-> FALSE]

IsPrefix(s, t) == Len(s) <= Len(t) /\ s = SubSeq(t, 1, Len(s))

\* C39: init applies exactly the scripts modified after the previous
\* execution date, all of them when there is none, in ascending file-name
\* order, each in its own transaction; when script k fails, scripts 1..k-1
\* stay committed, script k is rolled back and no later script is executed.
C39_ScriptsAppliedInOrder ==
    /\ IsPrefix(ddl_executed, UpToFailure.executed)
    /\ IsPrefix(ddl_committed, UpToFailure.committed)
    /\ ddl_tx # Null =>
           /\ ddl_executed = Append(ddl_committed, ddl_tx)
           /\ ddl_tx \notin ddl_fails
    /\ ddl_pc = "done" =>
           /\ ~UpToFailure.failed
           /\ ddl_committed = ScriptsToApply
           /\ ddl_tx = Null
    /\ ddl_pc = "raised" =>
           /\ UpToFailure.failed
           /\ ddl_executed = UpToFailure.executed
           /\ ddl_committed = UpToFailure.committed
           /\ ddl_tx = Null

\* The second of three scripts to apply failed after the first was
\* committed, with the directory listed in another order than by name.
C39_Witness ==
    /\ ddl_pc = "raised"
    /\ Len(ddl_committed) = 1
    /\ Len(ScriptsToApply) > Len(ddl_executed)
    /\ ddl_listing # [i \in Scripts |-> i]
    /\ \E f \in Scripts : f \notin {ScriptsToApply[i] : i \in 1..Len(ScriptsToApply)}

====
